---- MODULE Spec2Model ----
(***************************************************************************)
(* A model of fs.googledrivefs: the GoogleDriveFS facade, its path         *)
(* resolver and the _UploadOnClose staged file handle, over a backend      *)
(* object store that is a flat set of named objects with parent links.     *)
(***************************************************************************)
EXTENDS Integers, Sequences, FiniteSets, TLC

VARIABLES
    files,      \* the backend's objects: a set of metadata records
    nextId,     \* the identifier the backend assigns to the next created object
    rootId,     \* GoogleDriveFS.rootId: None, or the caller-supplied alternate root
    scene,      \* which input sets the environment draws from ("tree", "bytes", ...)
    handles,    \* the _UploadOnClose objects, by slot
    last,       \* the most recent call and how it ended
    calls,      \* the backend calls that call issued, in order
    clock,      \* the time, in ticks of a fraction of a second
    lock,       \* the instance lock: the thread that owns it and how often it took it
    threads     \* what each client thread is in the middle of

vars == <<files, nextId, rootId, scene, handles, last, calls, clock, lock, threads>>

-----------------------------------------------------------------------------
(* Bounds of the model *)

MaxId == 2          \* objects the backend creates in one behaviour
MaxHandles == 1     \* handle slots
MaxLen == 1         \* longest file content, in the "tree" scene
ByteLen == 6        \* longest file content, in the "bytes" scene
TimeLen == 2        \* longest file content, in the "time" scene
MaxLocalOps == 2    \* reads, writes and seeks made on one handle
MaxPages == 3       \* pages one files().list query comes in
MaxClock == 3       \* the backend's clock, in ticks
MaxThreads == 2     \* client threads on one instance
MaxOps == 2         \* operations one thread starts

-----------------------------------------------------------------------------
(* Values *)

None == -1
RootMarker == 0
AltRootId == 99
folderMimeType == "application/vnd.google-apps.folder"
shortcutMimeType == "application/vnd.google-apps.shortcut"
plainMimeType == "application/octet-stream"

\* time: the backend keeps fractions of a second, the client sends and reports whole seconds
TicksPerSecond == 2
Second(t) == t \div TicksPerSecond
\* datetime.replace(microsecond=0)
WholeSecond(t) == Second(t) * TicksPerSecond

\* a dict is a set of <<key, value>> pairs; the empty dict is the absent field
NoDict == {}
OwnerPermission == [type |-> "user", role |-> "owner", emailAddress |-> "owner"]

\* _rootMetadata has an id and a mime type; None stands for each field it lacks
rootMetadata ==
    [id |-> RootMarker, mimeType |-> folderMimeType, name |-> "", parent |-> None,
     content |-> <<>>, trashed |-> FALSE,
     createdTime |-> None, modifiedTime |-> None, permissions |-> {}, hasPermissions |-> FALSE,
     appProperties |-> NoDict, targetId |-> None]

altRootMetadata ==
    [id |-> AltRootId, mimeType |-> folderMimeType, name |-> "scoped", parent |-> RootMarker,
     content |-> <<>>, trashed |-> FALSE,
     createdTime |-> 0, modifiedTime |-> 0, permissions |-> {OwnerPermission},
     hasPermissions |-> TRUE, appProperties |-> NoDict, targetId |-> None]

Names == {"a", "b"}
Root == <<>>
TreePaths == {Root, <<"a">>, <<"b">>, <<"a", "b">>}
BytePaths == {<<"a">>}
\* the scenes that work on a tree of directories; the others work on the one file /a
TreeScenes == {"tree", "meta", "share", "lock"}
MetaPaths == {Root, <<"a">>, <<"a", "b">>}
Paths == IF scene = "meta" THEN MetaPaths
         ELSE IF scene \in TreeScenes THEN TreePaths ELSE BytePaths

Modes == {"r", "r+", "w", "w+", "a", "a+", "x", "x+"}
ByteModes == {"r", "r+", "w", "a"}
TimeModes == {"w", "a"}
OpenModes == IF scene \in TreeScenes THEN Modes
             ELSE IF scene = "time" THEN TimeModes ELSE ByteModes

TreeChunks == {<<"A">>}
ByteChunks == {<<"A", "A", "A">>, <<"B", "B", "B">>, <<"X">>}
Chunks == IF scene \in TreeScenes \cup {"time"} THEN TreeChunks ELSE ByteChunks
\* the createdDateTime option of openbin, in ticks; None when it is not given
CreatedOptions == IF scene = "time" THEN {None, 1} ELSE {None}

\* what the environment passes to setinfo, share, hasurl and geturl
AppAttrInputs ==
    {[names |-> {"appProperties"}, modified |-> None, indexableText |-> "",
      appProperties |-> d] : d \in {{<<"k", 1>>}, {<<"k", None>>}, {<<"j", 2>>}}}
TextAttrInputs ==
    {[names |-> {"indexableText"}, modified |-> None, indexableText |-> "text",
      appProperties |-> {}]}
TimeAttrInputs ==
    {[names |-> {"modified"}, modified |-> t, indexableText |-> "",
      appProperties |-> {}] : t \in {0, 1}}
AttrInputs ==
    IF scene = "meta" THEN AppAttrInputs \cup TextAttrInputs \cup {a \in TimeAttrInputs : a.modified = 1}
    ELSE IF scene = "time" THEN TimeAttrInputs
    ELSE TextAttrInputs
Emails == {"", "u@x"}
Roles == {"reader", "bogus"}
Purposes == {"download", "upload"}
LenCap == IF scene \in TreeScenes THEN MaxLen
          ELSE IF scene = "time" THEN TimeLen ELSE ByteLen

-----------------------------------------------------------------------------
(* fs.path *)

dirname(path) == IF path = Root THEN Root ELSE SubSeq(path, 1, Len(path) - 1)
basename(path) == IF path = Root THEN "" ELSE path[Len(path)]

(* fs.mode.Mode *)
HasChar(mode, c) ==
    CASE c = "r" -> mode \in {"r", "r+"}
      [] c = "w" -> mode \in {"w", "w+"}
      [] c = "a" -> mode \in {"a", "a+"}
      [] c = "x" -> mode \in {"x", "x+"}
      [] c = "+" -> mode \in {"r+", "w+", "a+", "x+"}
reading(mode) == HasChar(mode, "r") \/ HasChar(mode, "+")
writing(mode) == HasChar(mode, "w") \/ HasChar(mode, "a") \/ HasChar(mode, "+") \/ HasChar(mode, "x")
appending(mode) == HasChar(mode, "a")
create(mode) == HasChar(mode, "a") \/ HasChar(mode, "w") \/ HasChar(mode, "x")
truncate(mode) == HasChar(mode, "w") \/ HasChar(mode, "x")
exclusive(mode) == HasChar(mode, "x")

-----------------------------------------------------------------------------
(* The backend *)

Exists(id) == \E f \in files : f.id = id
Obj(id) == CHOOSE f \in files : f.id = id

RECURSIVE Descendants(_)
Descendants(ids) ==
    LET kids == {f.id : f \in {g \in files : g.parent \in ids}} IN
    IF kids \subseteq ids THEN ids ELSE Descendants(ids \cup kids)

\* files().delete: the object goes, and with a folder everything below it
backendDelete(id) ==
    LET gone == IF Obj(id).mimeType = folderMimeType THEN Descendants({id}) ELSE {id} IN
    {f \in files : f.id \notin gone}

\* files().list(q = "trashed=False and name='..' and '..' in parents")
fileQueryByName(parentId, childName) ==
    {f \in files : ~f.trashed /\ f.name = childName /\ f.parent = parentId}

\* files().list(q = "trashed=False and '..' in parents")
childrenById(parentId) == {f \in files : ~f.trashed /\ f.parent = parentId}

\* one backend request, as the call log records it
Request(c, id, name, parent) == [call |-> c, id |-> id, name |-> name, parent |-> parent]
ListCall(parentId, childName) == Request("list", None, childName, parentId)
Call(c, id) == Request(c, id, "", None)

\* _childByName that carries on with one of several matches
oneOrNone_PicksOne(result, pid, childName) ==
    [err |-> "ok",
     item |-> IF result # {} THEN CHOOSE f \in result : TRUE ELSE rootMetadata,
     found |-> result # {},
     calls |-> <<ListCall(pid, childName)>>]

\* _childByName: the matches, or RuntimeError when there are several
oneOrNone(result, pid, childName) ==
    [err |-> IF Cardinality(result) \notin {0, 1} THEN "RuntimeError" ELSE "ok",
     item |-> IF Cardinality(result) = 1 THEN CHOOSE f \in result : TRUE ELSE rootMetadata,
     found |-> Cardinality(result) = 1,
     calls |-> <<ListCall(pid, childName)>>]

childByName(parentId, childName) ==
    oneOrNone(fileQueryByName(IF parentId = None THEN RootMarker ELSE parentId, childName),
              IF parentId = None THEN RootMarker ELSE parentId, childName)

RECURSIVE Walk(_, _, _, _)
RECURSIVE WalkOn(_, _, _, _)
\* the walk that goes on below the root after a segment that is missing
WalkOn_NoStop(c, rest, items, log) ==
    IF c.err # "ok" THEN [err |-> c.err, items |-> items, calls |-> log \o c.calls]
    ELSE IF ~c.found THEN Walk(None, Tail(rest), items, log \o c.calls)
    ELSE Walk(c.item.id, Tail(rest), Append(items, c.item), log \o c.calls)

Walk(parentId, rest, items, log) ==
    IF rest = <<>> THEN [err |-> "ok", items |-> items, calls |-> log]
    ELSE WalkOn(childByName(parentId, Head(rest)), rest, items, log)

WalkOn(c, rest, items, log) ==
    IF c.err # "ok" THEN [err |-> c.err, items |-> items, calls |-> log \o c.calls]
    ELSE IF ~c.found THEN [err |-> "ok", items |-> items, calls |-> log \o c.calls]
    ELSE Walk(c.item.id, Tail(rest), Append(items, c.item), log \o c.calls)

\* _itemsFromPath: items[i + 1] is the metadata of the prefix of length i
itemsFromPath(path) ==
    IF rootId # None /\ ~Exists(rootId)
    THEN [err |-> "HttpError", items |-> <<>>, calls |-> <<Call("get", rootId)>>]
    ELSE IF rootId # None
    THEN Walk(rootId, path, <<Obj(rootId)>>, <<Call("get", rootId)>>)
    ELSE Walk(rootId, path, <<rootMetadata>>, <<>>)

Has(r, path) == Len(r.items) > Len(path)
Get(r, path) == r.items[Len(path) + 1]

Out(err, fs, nid, log) == [err |-> err, files |-> fs, nextId |-> nid, calls |-> log]

\* files().create without times in the body: the backend stamps the object with its clock
NewObject(id, name, parent, mime, content) ==
    [id |-> id, mimeType |-> mime, name |-> name, parent |-> parent,
     content |-> content, trashed |-> FALSE,
     createdTime |-> clock, modifiedTime |-> clock, permissions |-> {OwnerPermission},
     hasPermissions |-> TRUE, appProperties |-> NoDict, targetId |-> None]

-----------------------------------------------------------------------------
(* GoogleDriveFS: directories *)

\* _createSubdirectory
createSubdirectory(name, parent) ==
    files \cup {NewObject(nextId, name, parent, folderMimeType, <<>>)}

makedir(path, recreate) ==
    LET r == itemsFromPath(dirname(path)) IN
    IF r.err # "ok" THEN Out(r.err, files, nextId, r.calls)
    ELSE IF ~Has(r, dirname(path)) THEN Out("ResourceNotFound", files, nextId, r.calls)
    ELSE LET parentMetadata == Get(r, dirname(path))
             c == childByName(parentMetadata.id, basename(path))
             log == r.calls \o c.calls IN
         IF c.err # "ok" THEN Out(c.err, files, nextId, log)
         ELSE IF c.found
         THEN IF ~recreate THEN Out("DirectoryExists", files, nextId, log)
              ELSE Out("ok", files, nextId, log)
         ELSE Out("ok", createSubdirectory(basename(path), parentMetadata.id), nextId + 1,
                  Append(log, Request("create", nextId, basename(path), parentMetadata.id)))

\* remove that lets the root through
remove_NoRootCheck(path) ==
    LET r == itemsFromPath(path) IN
    IF r.err # "ok" THEN Out(r.err, files, nextId, r.calls)
    ELSE IF ~Has(r, path) THEN Out("ResourceNotFound", files, nextId, r.calls)
    ELSE LET metadata == Get(r, path) IN
         IF metadata.mimeType = folderMimeType
         THEN Out("FileExpected", files, nextId, r.calls)
         ELSE Out("ok", backendDelete(metadata.id), nextId,
                  Append(r.calls, Call("delete", metadata.id)))

\* remove that deletes whatever the path leads to
remove_NoTypeCheck(path) ==
    IF path = Root THEN Out("RemoveRootError", files, nextId, <<>>)
    ELSE LET r == itemsFromPath(path) IN
         IF r.err # "ok" THEN Out(r.err, files, nextId, r.calls)
         ELSE IF ~Has(r, path) THEN Out("ResourceNotFound", files, nextId, r.calls)
         ELSE LET metadata == Get(r, path) IN
              Out("ok", backendDelete(metadata.id), nextId,
                  Append(r.calls, Call("delete", metadata.id)))

remove(path) ==
    IF path = Root THEN Out("RemoveRootError", files, nextId, <<>>)
    ELSE LET r == itemsFromPath(path) IN
         IF r.err # "ok" THEN Out(r.err, files, nextId, r.calls)
         ELSE IF ~Has(r, path) THEN Out("ResourceNotFound", files, nextId, r.calls)
         ELSE LET metadata == Get(r, path) IN
              IF metadata.mimeType = folderMimeType
              THEN Out("FileExpected", files, nextId, r.calls)
              ELSE Out("ok", backendDelete(metadata.id), nextId,
                       Append(r.calls, Call("delete", metadata.id)))

\* removedir that does not list the children
removedir_NoEmptyCheck(path) ==
    IF path = Root THEN Out("RemoveRootError", files, nextId, <<>>)
    ELSE LET r == itemsFromPath(path) IN
         IF r.err # "ok" THEN Out(r.err, files, nextId, r.calls)
         ELSE IF ~Has(r, path) THEN Out("ResourceNotFound", files, nextId, r.calls)
         ELSE LET metadata == Get(r, path) IN
              IF metadata.mimeType # folderMimeType
              THEN Out("DirectoryExpected", files, nextId, r.calls)
              ELSE Out("ok", backendDelete(metadata.id), nextId,
                       Append(r.calls, Call("delete", metadata.id)))

removedir(path) ==
    IF path = Root THEN Out("RemoveRootError", files, nextId, <<>>)
    ELSE LET r == itemsFromPath(path) IN
         IF r.err # "ok" THEN Out(r.err, files, nextId, r.calls)
         ELSE IF ~Has(r, path) THEN Out("ResourceNotFound", files, nextId, r.calls)
         ELSE LET metadata == Get(r, path)
                  children == childrenById(metadata.id)
                  log == Append(r.calls, Request("list", None, "", metadata.id)) IN
              IF metadata.mimeType # folderMimeType
              THEN Out("DirectoryExpected", files, nextId, r.calls)
              ELSE IF Cardinality(children) > 0
              THEN Out("DirectoryNotEmpty", files, nextId, log)
              ELSE Out("ok", backendDelete(metadata.id), nextId,
                       Append(log, Call("delete", metadata.id)))

\* files().copy(fileId = id, body = {parents, name}): a new object with the content
backendCopy(fs, id, newId, name, parent) ==
    LET src == CHOOSE f \in fs : f.id = id IN
    fs \cup {[src EXCEPT !.id = newId, !.name = name, !.parent = parent,
                         !.createdTime = clock, !.permissions = {OwnerPermission}]}

\* files().update(fileId = id, addParents, removeParents, body = {name})
backendMove(fs, id, name, addParents, removeParents) ==
    {IF f.id = id THEN [f EXCEPT !.name = name, !.parent = addParents] ELSE f : f \in fs}

\* copy that clears the destination before it looks at the source
copy_DeleteFirst(src_path, dst_path, overwrite) ==
    LET parentDir == dirname(dst_path)
        p == itemsFromPath(parentDir)
        d == itemsFromPath(dst_path)
        hasDst == d.err = "ok" /\ Has(d, dst_path)
        dstId == IF hasDst THEN Get(d, dst_path).id ELSE None
        gone == hasDst /\ Exists(dstId)
        fs == IF gone THEN backendDelete(dstId) ELSE files
        s == itemsFromPath(src_path)
        log == (p.calls \o d.calls)
               \o (IF hasDst THEN <<Call("delete", dstId)>> ELSE <<>>) \o s.calls IN
    IF p.err # "ok" THEN Out(p.err, files, nextId, p.calls)
    ELSE IF ~Has(p, parentDir) THEN Out("ResourceNotFound", files, nextId, p.calls)
    ELSE IF d.err # "ok" THEN Out(d.err, files, nextId, p.calls \o d.calls)
    ELSE IF ~overwrite /\ Has(d, dst_path)
    THEN Out("DestinationExists", files, nextId, p.calls \o d.calls)
    ELSE IF hasDst /\ ~gone THEN Out("HttpError", files, nextId, log)
    ELSE IF s.err # "ok" THEN Out(s.err, fs, nextId, log)
    ELSE IF ~Has(s, src_path) THEN Out("ResourceNotFound", fs, nextId, log)
    ELSE IF Get(s, src_path).mimeType = folderMimeType
    THEN Out("FileExpected", fs, nextId, log)
    ELSE LET parentDirItem == Get(p, parentDir)
             srcItem == Get(s, src_path)
             request == Request("copy", srcItem.id, basename(dst_path), parentDirItem.id) IN
         IF ~\E f \in fs : f.id = srcItem.id
         THEN Out("HttpError", fs, nextId, Append(log, request))
         ELSE Out("ok",
                  backendCopy(fs, srcItem.id, nextId, basename(dst_path), parentDirItem.id),
                  nextId + 1, Append(log, request))

copy(src_path, dst_path, overwrite) ==
    LET parentDir == dirname(dst_path)
        p == itemsFromPath(parentDir)
        d == itemsFromPath(dst_path)
        s == itemsFromPath(src_path)
        log == p.calls \o d.calls \o s.calls IN
    IF p.err # "ok" THEN Out(p.err, files, nextId, p.calls)
    ELSE IF ~Has(p, parentDir) THEN Out("ResourceNotFound", files, nextId, p.calls)
    ELSE IF d.err # "ok" THEN Out(d.err, files, nextId, p.calls \o d.calls)
    ELSE IF ~overwrite /\ Has(d, dst_path)
    THEN Out("DestinationExists", files, nextId, p.calls \o d.calls)
    ELSE IF s.err # "ok" THEN Out(s.err, files, nextId, log)
    ELSE IF ~Has(s, src_path) THEN Out("ResourceNotFound", files, nextId, log)
    ELSE IF Get(s, src_path).mimeType = folderMimeType
    THEN Out("FileExpected", files, nextId, log)
    ELSE LET parentDirItem == Get(p, parentDir)
             srcItem == Get(s, src_path)
             hasDst == Has(d, dst_path)
             dstId == IF hasDst THEN Get(d, dst_path).id ELSE None
             delLog == IF hasDst THEN Append(log, Call("delete", dstId)) ELSE log
             request == Request("copy", srcItem.id, basename(dst_path), parentDirItem.id) IN
         \* the backend refuses to delete the well-known root
         IF hasDst /\ ~Exists(dstId) THEN Out("HttpError", files, nextId, delLog)
         ELSE LET fs == IF hasDst THEN backendDelete(dstId) ELSE files IN
              \* the source went with the destination: 404
              IF ~\E f \in fs : f.id = srcItem.id
              THEN Out("HttpError", fs, nextId, Append(delLog, request))
              ELSE Out("ok",
                       backendCopy(fs, srcItem.id, nextId, basename(dst_path),
                                   parentDirItem.id),
                       nextId + 1, Append(delLog, request))

move(src_path, dst_path, overwrite) ==
    LET d == itemsFromPath(dst_path)
        sp == itemsFromPath(dirname(src_path))
        s == itemsFromPath(src_path)
        dstParentDir == dirname(dst_path)
        dp == itemsFromPath(dstParentDir)
        log3 == d.calls \o sp.calls \o s.calls
        log == log3 \o dp.calls IN
    IF d.err # "ok" THEN Out(d.err, files, nextId, d.calls)
    ELSE IF ~overwrite /\ Has(d, dst_path) THEN Out("DestinationExists", files, nextId, d.calls)
    ELSE IF sp.err # "ok" THEN Out(sp.err, files, nextId, d.calls \o sp.calls)
    ELSE IF ~Has(sp, dirname(src_path))
    THEN Out("ResourceNotFound", files, nextId, d.calls \o sp.calls)
    ELSE IF s.err # "ok" THEN Out(s.err, files, nextId, log3)
    ELSE IF ~Has(s, src_path) THEN Out("ResourceNotFound", files, nextId, log3)
    ELSE IF Get(s, src_path).mimeType = folderMimeType
    THEN Out("FileExpected", files, nextId, log3)
    ELSE IF dp.err # "ok" THEN Out(dp.err, files, nextId, log)
    ELSE IF ~Has(dp, dstParentDir) THEN Out("ResourceNotFound", files, nextId, log)
    ELSE LET srcParentItem == Get(sp, dirname(src_path))
             srcItem == Get(s, src_path)
             dstParentDirItem == Get(dp, dstParentDir)
             hasDst == Has(d, dst_path)
             dstId == IF hasDst THEN Get(d, dst_path).id ELSE None
             delLog == IF hasDst THEN Append(log, Call("delete", dstId)) ELSE log
             request == Request("update", srcItem.id, basename(dst_path),
                                dstParentDirItem.id) IN
         IF hasDst /\ ~Exists(dstId) THEN Out("HttpError", files, nextId, delLog)
         ELSE LET fs == IF hasDst THEN backendDelete(dstId) ELSE files IN
              IF ~\E f \in fs : f.id = srcItem.id
              THEN Out("HttpError", fs, nextId, Append(delLog, request))
              ELSE Out("ok",
                       backendMove(fs, srcItem.id, basename(dst_path),
                                   dstParentDirItem.id, srcParentItem.id),
                       nextId, Append(delLog, request))

\* _InfoFromMetadata: the basic, details, sharing and google namespaces.  The times are
\* whole seconds (datetime_to_epoch); contentHints never comes back from the backend;
\* the backend reports a size for files with a binary content only.
InfoFromMetadata(metadata) ==
    LET isRoot == metadata = rootMetadata
        isFolder == metadata.mimeType = folderMimeType
        permissions == IF metadata.hasPermissions THEN metadata.permissions ELSE {} IN
    [name |-> IF isRoot THEN "" ELSE metadata.name,
     is_dir |-> isFolder,
     id |-> metadata.id,
     created |-> IF isRoot THEN None ELSE Second(metadata.createdTime),
     modified |-> IF isRoot THEN None ELSE Second(metadata.modifiedTime),
     size |-> IF metadata.mimeType = plainMimeType THEN Len(metadata.content) ELSE None,
     hasPermissions |-> metadata.hasPermissions,
     permissions |-> permissions,
     is_shared |-> IF metadata.hasPermissions THEN Cardinality(permissions) > 1 ELSE FALSE,
     appProperties |-> metadata.appProperties,
     isShortcut |-> metadata.mimeType = shortcutMimeType]

NoInfo == InfoFromMetadata(rootMetadata)

getinfo(path) ==
    LET r == itemsFromPath(path) IN
    IF r.err # "ok" THEN [err |-> r.err, info |-> NoInfo, calls |-> r.calls]
    ELSE IF ~Has(r, path) THEN [err |-> "ResourceNotFound", info |-> NoInfo, calls |-> r.calls]
    ELSE [err |-> "ok", info |-> InfoFromMetadata(Get(r, path)), calls |-> r.calls]

\* the info argument of setinfo: the names it gives, and their values
Attrs(names, modified, indexableText, appProperties) ==
    [names |-> names, modified |-> modified, indexableText |-> indexableText,
     appProperties |-> appProperties]
NoAttrs == Attrs({}, None, "", NoDict)

Keys(dict) == {kv[1] : kv \in dict}

\* files().update(fileId, body): appProperties are merged key by key and a null value
\* removes its key; a modifiedTime in the body replaces the object's; contentHints are
\* taken and never given back.  The well-known root is not one of the objects kept here.
backendUpdate(fs, id, body) ==
    {IF f.id # id THEN f
     ELSE [f EXCEPT
             !.modifiedTime = IF "modifiedTime" \in body.names THEN body.modified ELSE @,
             !.appProperties =
                IF "appProperties" \in body.names
                THEN {kv \in @ : kv[1] \notin Keys(body.appProperties)}
                       \cup {kv \in body.appProperties : kv[2] # None}
                ELSE @]
       : f \in fs}

\* setinfo that sends the app properties as the whole of the object's properties
setinfo_Replace(path, info) ==
    LET r == itemsFromPath(path) IN
    IF r.err # "ok" THEN Out(r.err, files, nextId, r.calls)
    ELSE IF ~Has(r, path) THEN Out("ResourceNotFound", files, nextId, r.calls)
    ELSE LET metadata == Get(r, path)
             log == Append(r.calls, Call("update", metadata.id)) IN
         IF metadata.id # RootMarker /\ ~Exists(metadata.id)
         THEN Out("HttpError", files, nextId, log)
         ELSE Out("ok",
                  {IF f.id # metadata.id THEN f
                   ELSE [f EXCEPT !.appProperties =
                                     {kv \in info.appProperties : kv[2] # None}]
                     : f \in files},
                  nextId, log)

\* setinfo: details.modified, google.indexableText and google.appProperties go into one
\* files().update; epoch seconds become an RFC 3339 time
setinfo(path, info) ==
    LET r == itemsFromPath(path) IN
    IF r.err # "ok" THEN Out(r.err, files, nextId, r.calls)
    ELSE IF ~Has(r, path) THEN Out("ResourceNotFound", files, nextId, r.calls)
    ELSE LET metadata == Get(r, path)
             updatedData ==
                [names |-> {IF n = "modified" THEN "modifiedTime"
                            ELSE IF n = "indexableText" THEN "contentHints" ELSE n
                              : n \in info.names},
                 modified |-> IF "modified" \in info.names
                              THEN info.modified * TicksPerSecond ELSE None,
                 indexableText |-> info.indexableText,
                 appProperties |-> info.appProperties]
             log == Append(r.calls, Call("update", metadata.id)) IN
         IF metadata.id # RootMarker /\ ~Exists(metadata.id)
         THEN Out("HttpError", files, nextId, log)
         ELSE Out("ok", backendUpdate(files, metadata.id, updatedData), nextId, log)

sharingUrl == "https://drive.google.com/open?id="
NoUrl == <<"", None>>
NoEmail == ""
SharingRoles == {"reader", "writer", "commenter", "fileOrganizer", "organizer", "owner"}

\* permissions().create(fileId, body): one more entry in the object's permission list
backendPermit(fs, id, body) ==
    {IF f.id = id THEN [f EXCEPT !.permissions = @ \cup {body}] ELSE f : f \in fs}

\* geturl, on the backend state fs
geturlIn(fs, path, purpose) ==
    LET r == itemsFromPath(path)
        none == [err |-> "ok", url |-> NoUrl, calls |-> <<>>] IN
    IF purpose # "download" THEN [none EXCEPT !.err = "NoURL"]
    ELSE IF r.err # "ok" THEN [none EXCEPT !.err = r.err, !.calls = r.calls]
    ELSE IF ~Has(r, path) THEN [none EXCEPT !.err = "ResourceNotFound", !.calls = r.calls]
    ELSE LET found == Get(r, path)
             metadata == IF found = rootMetadata THEN found
                         ELSE CHOOSE f \in fs : f.id = found.id
             fileInfo == InfoFromMetadata(metadata) IN
         IF fileInfo.is_shared = FALSE THEN [none EXCEPT !.err = "NoURL", !.calls = r.calls]
         ELSE [err |-> "ok", url |-> <<sharingUrl, fileInfo.id>>, calls |-> r.calls]

geturl(path, purpose) == geturlIn(files, path, purpose)

\* hasurl that lets the failed lookup through
hasurl_Propagates(path, purpose) ==
    LET g == getinfo(path) IN
    IF purpose # "download" THEN [err |-> "NoURL", flag |-> FALSE, calls |-> <<>>]
    ELSE [err |-> g.err, flag |-> g.info.is_shared, calls |-> g.calls]

hasurl(path, purpose) ==
    LET g == getinfo(path) IN
    IF purpose # "download" THEN [err |-> "NoURL", flag |-> FALSE, calls |-> <<>>]
    ELSE IF g.err = "ResourceNotFound" THEN [err |-> "ok", flag |-> FALSE, calls |-> g.calls]
    ELSE [err |-> g.err, flag |-> g.info.is_shared, calls |-> g.calls]

\* share that creates the permission before it looks at the role
share_PermitFirst(path, email, role) ==
    LET r == itemsFromPath(path)
        none == [err |-> "ok", files |-> files, url |-> NoUrl, calls |-> r.calls] IN
    IF r.err # "ok" THEN [none EXCEPT !.err = r.err]
    ELSE IF ~Has(r, path) THEN [none EXCEPT !.err = "ResourceNotFound"]
    ELSE LET metadata == Get(r, path)
             permissions == IF email # NoEmail
                            THEN [role |-> role, type |-> "user", emailAddress |-> email]
                            ELSE [role |-> role, type |-> "anyone", emailAddress |-> NoEmail]
             log == Append(r.calls, Call("permit", metadata.id))
             fs == backendPermit(files, metadata.id, permissions)
             g == geturlIn(fs, path, "download") IN
         IF metadata.id # RootMarker /\ ~Exists(metadata.id)
         THEN [none EXCEPT !.err = "HttpError", !.calls = log]
         ELSE IF role \notin SharingRoles
         THEN [none EXCEPT !.err = "OperationFailed", !.files = fs, !.calls = log]
         ELSE [err |-> g.err, files |-> fs, url |-> g.url, calls |-> log \o g.calls]

share(path, email, role) ==
    LET r == itemsFromPath(path)
        none == [err |-> "ok", files |-> files, url |-> NoUrl, calls |-> r.calls] IN
    IF r.err # "ok" THEN [none EXCEPT !.err = r.err]
    ELSE IF ~Has(r, path) THEN [none EXCEPT !.err = "ResourceNotFound"]
    ELSE IF role \notin SharingRoles THEN [none EXCEPT !.err = "OperationFailed"]
    ELSE LET metadata == Get(r, path)
             permissions == IF email # NoEmail
                            THEN [role |-> role, type |-> "user", emailAddress |-> email]
                            ELSE [role |-> role, type |-> "anyone", emailAddress |-> NoEmail]
             log == Append(r.calls, Call("permit", metadata.id))
             fs == backendPermit(files, metadata.id, permissions)
             g == geturlIn(fs, path, "download") IN
         IF metadata.id # RootMarker /\ ~Exists(metadata.id)
         THEN [none EXCEPT !.err = "HttpError", !.calls = log]
         ELSE [err |-> g.err, files |-> fs, url |-> g.url, calls |-> log \o g.calls]

\* the orders in which the backend may return a set of matches
Listings(S) ==
    {l \in [1..Cardinality(S) -> S] : \A i, j \in 1..Cardinality(S) : l[i] = l[j] => i = j}

RECURSIVE Sum(_)
Sum(s) == IF s = <<>> THEN 0 ELSE Head(s) + Sum(Tail(s))

\* the ways the backend may cut n matches into pages, empty pages included
Splits(n) == {sp \in UNION {[1..k -> 0..n] : k \in 1..MaxPages} : Sum(sp) = n}

\* files().list(q, pageToken): page k of the matches, and the token of the next page if any
backendList(listing, split, k) ==
    LET start == Sum(SubSeq(split, 1, k - 1)) IN
    [files |-> SubSeq(listing, start + 1, start + split[k]),
     nextPageToken |-> IF k < Len(split) THEN k + 1 ELSE None]

RECURSIVE FollowPages(_, _, _, _)
FollowPages(listing, split, response, result) ==
    IF response.nextPageToken = None THEN result
    ELSE LET next == backendList(listing, split, response.nextPageToken) IN
         FollowPages(listing, split, next, result \o next.files)

\* _fileQuery that stops after the first page
fileQuery_FirstPage(listing, split) == backendList(listing, split, 1).files

\* _fileQuery: the first page, then every page a nextPageToken leads to
fileQuery(listing, split) ==
    LET response == backendList(listing, split, 1) IN
    FollowPages(listing, split, response, response.files)

\* _GenerateChildren without a page argument
GenerateChildren(children) == [i \in 1..Len(children) |-> InfoFromMetadata(children[i])]

\* scandir; listing and split are the backend's order and paging of the children
scandir(path, listing, split) ==
    LET r == itemsFromPath(path)
        none == [err |-> "ok", children |-> <<>>, calls |-> r.calls] IN
    IF r.err # "ok" THEN [none EXCEPT !.err = r.err]
    ELSE IF ~Has(r, path) THEN [none EXCEPT !.err = "ResourceNotFound"]
    ELSE IF Get(r, path).mimeType # folderMimeType
    THEN [none EXCEPT !.err = "DirectoryExpected"]
    ELSE [err |-> "ok",
          children |-> GenerateChildren(fileQuery(listing, split)),
          calls |-> r.calls \o [k \in 1..Len(split) |-> ListCall(Get(r, path).id, "")]]

listdir(path, listing, split) ==
    LET o == scandir(path, listing, split) IN
    [o EXCEPT !.children = [i \in 1..Len(o.children) |-> o.children[i].name]]

\* the children the backend has to report for the directory a path leads to
Matches(path) ==
    LET r == itemsFromPath(path) IN
    IF r.err = "ok" /\ Has(r, path) /\ Get(r, path).mimeType = folderMimeType
    THEN childrenById(IF Get(r, path) = rootMetadata THEN RootMarker ELSE Get(r, path).id)
    ELSE {}

-----------------------------------------------------------------------------
(* _UploadOnClose: the staged file handle *)

Slots == 1..MaxHandles

FreeHandle ==
    [state |-> "free", path |-> Root, thisMetadata |-> None, parentMetadata |-> None,
     parsedMode |-> "r", buf |-> <<>>, pos |-> 0, localPath |-> FALSE, hist |-> <<>>,
     base |-> <<>>, createdDateTime |-> None]

\* the mode the scratch file is opened in: to_platform(), then 'x' replaced by 'a'
platformMode(mode) == IF mode = "x" THEN "a" ELSE IF mode = "x+" THEN "a+" ELSE mode

\* _download_to_file: files().get_media(fileId)
download(id) == Obj(id).content

\* __init__ that fills the scratch file for reading modes only
UploadOnClose_ReadingOnly(path, thisMetadata, parentMetadata, parsedMode) ==
    LET populate == reading(parsedMode) /\ ~truncate(parsedMode) /\ thisMetadata # None
        data == IF populate THEN download(thisMetadata) ELSE <<>> IN
    [handle |-> [state |-> "open", path |-> path, thisMetadata |-> thisMetadata,
                 parentMetadata |-> parentMetadata, parsedMode |-> parsedMode,
                 buf |-> data,
                 pos |-> IF appending(parsedMode) THEN Len(data) ELSE 0,
                 localPath |-> TRUE, hist |-> <<>>, base |-> <<>>, createdDateTime |-> None],
     calls |-> IF populate THEN <<Call("get_media", thisMetadata)>> ELSE <<>>]

\* _UploadOnClose.__init__
UploadOnClose(path, thisMetadata, parentMetadata, parsedMode) ==
    LET populate == (reading(parsedMode) \/ appending(parsedMode)) /\ ~truncate(parsedMode)
                    /\ thisMetadata # None
        data == IF populate THEN download(thisMetadata) ELSE <<>> IN
    [handle |-> [state |-> "open", path |-> path, thisMetadata |-> thisMetadata,
                 parentMetadata |-> parentMetadata, parsedMode |-> parsedMode,
                 buf |-> data,
                 pos |-> IF appending(parsedMode) THEN Len(data) ELSE 0,
                 localPath |-> TRUE, hist |-> <<>>, base |-> <<>>, createdDateTime |-> None],
     calls |-> IF populate THEN <<Call("get_media", thisMetadata)>> ELSE <<>>]

\* openbin that does not look at the parent directory
openbin_NoParentCheck(path, mode) ==
    LET idsFromPath == itemsFromPath(path)
        found == Has(idsFromPath, path)
        item == IF found THEN Get(idsFromPath, path).id ELSE None
        parentDir == dirname(path)
        parentDirItem == IF Has(idsFromPath, parentDir) THEN Get(idsFromPath, parentDir).id
                         ELSE None
        Fail(e) == [err |-> e, handle |-> FreeHandle, calls |-> idsFromPath.calls] IN
    IF idsFromPath.err # "ok" THEN Fail(idsFromPath.err)
    ELSE IF exclusive(mode) /\ found THEN Fail("FileExists")
    ELSE IF reading(mode) /\ ~create(mode) /\ ~found THEN Fail("ResourceNotFound")
    ELSE IF found /\ Get(idsFromPath, path).mimeType = folderMimeType THEN Fail("FileExpected")
    ELSE LET u == UploadOnClose(path, item, parentDirItem, mode) IN
         [err |-> "ok", handle |-> u.handle, calls |-> idsFromPath.calls \o u.calls]

openbin(path, mode) ==
    LET idsFromPath == itemsFromPath(path)
        found == Has(idsFromPath, path)
        item == IF found THEN Get(idsFromPath, path).id ELSE None
        parentDir == dirname(path)
        parentDirItem == IF Has(idsFromPath, parentDir) THEN Get(idsFromPath, parentDir).id
                         ELSE None
        Fail(e) == [err |-> e, handle |-> FreeHandle, calls |-> idsFromPath.calls] IN
    IF idsFromPath.err # "ok" THEN Fail(idsFromPath.err)
    ELSE IF exclusive(mode) /\ found THEN Fail("FileExists")
    ELSE IF reading(mode) /\ ~create(mode) /\ ~found THEN Fail("ResourceNotFound")
    ELSE IF found /\ Get(idsFromPath, path).mimeType = folderMimeType THEN Fail("FileExpected")
    ELSE IF writing(mode) /\ parentDirItem = None THEN Fail("ResourceNotFound")
    ELSE LET u == UploadOnClose(path, item, parentDirItem, mode) IN
         [err |-> "ok", handle |-> u.handle, calls |-> idsFromPath.calls \o u.calls]

\* write() on the scratch file
localWrite(hd, data) ==
    LET pm == platformMode(hd.parsedMode) IN
    IF pm = "r" THEN [err |-> "UnsupportedOperation", buf |-> hd.buf, pos |-> hd.pos]
    ELSE IF pm \in {"a", "a+"}
    THEN [err |-> "ok", buf |-> hd.buf \o data, pos |-> Len(hd.buf) + Len(data)]
    ELSE [err |-> "ok",
          buf |-> SubSeq(hd.buf, 1, hd.pos) \o data
                  \o SubSeq(hd.buf, hd.pos + Len(data) + 1, Len(hd.buf)),
          pos |-> hd.pos + Len(data)]

\* read() on the scratch file: to the end of the file
localRead(hd) ==
    LET pm == platformMode(hd.parsedMode) IN
    IF pm \in {"w", "a"} THEN [err |-> "UnsupportedOperation", data |-> <<>>, pos |-> hd.pos]
    ELSE [err |-> "ok", data |-> SubSeq(hd.buf, hd.pos + 1, Len(hd.buf)), pos |-> Len(hd.buf)]

\* upload that does not look at the createdDateTime option
upload_NoOption(hd, backendFails) ==
    IF hd.thisMetadata = None
    THEN LET req == Request("create", nextId, basename(hd.path), hd.parentMetadata) IN
         IF backendFails \/ ~(hd.parentMetadata \in {RootMarker} \cup {f.id : f \in files})
         THEN Out("HttpError", files, nextId, <<req>>)
         ELSE Out("ok",
                  files \cup {[NewObject(nextId, basename(hd.path), hd.parentMetadata,
                                         plainMimeType, hd.buf)
                                 EXCEPT !.modifiedTime = WholeSecond(clock),
                                        !.createdTime =
                                           WholeSecond(clock)]},
                  nextId + 1, <<req>>)
    ELSE LET req == Call("update", hd.thisMetadata) IN
         IF backendFails \/ ~Exists(hd.thisMetadata)
         THEN Out("HttpError", files, nextId, <<req>>)
         ELSE Out("ok",
                  {IF f.id = hd.thisMetadata
                   THEN [f EXCEPT !.content = hd.buf, !.modifiedTime = clock] ELSE f
                     : f \in files},
                  nextId, <<req>>)

\* an upload that the backend refuses when the object is not as the handle found it
upload_IfUnchanged(hd, backendFails) ==
    IF hd.thisMetadata = None
    THEN LET req == Request("create", nextId, basename(hd.path), hd.parentMetadata) IN
         IF backendFails \/ ~(hd.parentMetadata \in {RootMarker} \cup {f.id : f \in files})
         THEN Out("HttpError", files, nextId, <<req>>)
         ELSE Out("ok",
                  files \cup {[NewObject(nextId, basename(hd.path), hd.parentMetadata,
                                         plainMimeType, hd.buf)
                                 EXCEPT !.modifiedTime = WholeSecond(clock),
                                        !.createdTime =
                                           IF hd.createdDateTime # None
                                           THEN WholeSecond(hd.createdDateTime)
                                           ELSE WholeSecond(clock)]},
                  nextId + 1, <<req>>)
    ELSE LET req == Call("update", hd.thisMetadata) IN
         IF backendFails \/ ~Exists(hd.thisMetadata)
            \/ Obj(hd.thisMetadata).content # hd.base
         THEN Out("HttpError", files, nextId, <<req>>)
         ELSE Out("ok",
                  {IF f.id = hd.thisMetadata
                   THEN [f EXCEPT !.content = hd.buf, !.modifiedTime = clock] ELSE f
                     : f \in files},
                  nextId, <<req>>)

\* the create or update request of close(), and what the backend makes of it
upload(hd, backendFails) ==
    IF hd.thisMetadata = None
    THEN LET req == Request("create", nextId, basename(hd.path), hd.parentMetadata) IN
         IF backendFails \/ ~(hd.parentMetadata \in {RootMarker} \cup {f.id : f \in files})
         THEN Out("HttpError", files, nextId, <<req>>)
         ELSE Out("ok",
                  files \cup {[NewObject(nextId, basename(hd.path), hd.parentMetadata,
                                         plainMimeType, hd.buf)
                                 EXCEPT !.modifiedTime = WholeSecond(clock),
                                        !.createdTime =
                                           IF hd.createdDateTime # None
                                           THEN WholeSecond(hd.createdDateTime)
                                           ELSE WholeSecond(clock)]},
                  nextId + 1, <<req>>)
    ELSE LET req == Call("update", hd.thisMetadata) IN
         IF backendFails \/ ~Exists(hd.thisMetadata)
         THEN Out("HttpError", files, nextId, <<req>>)
         ELSE Out("ok",
                  {IF f.id = hd.thisMetadata
                   THEN [f EXCEPT !.content = hd.buf, !.modifiedTime = clock] ELSE f
                     : f \in files},
                  nextId, <<req>>)

\* close that uploads only when there is something to upload
close_SkipsEmpty(hd, backendFails) ==
    IF writing(hd.parsedMode) /\ hd.localPath /\ hd.buf # <<>>
    THEN LET u == upload(hd, backendFails) IN [out |-> u, localPath |-> u.err # "ok"]
    ELSE IF ~hd.localPath
         THEN [out |-> Out("FileNotFoundError", files, nextId, <<>>), localPath |-> FALSE]
         ELSE [out |-> Out("ok", files, nextId, <<>>), localPath |-> FALSE]

\* _UploadOnClose.close
close(hd, backendFails) ==
    IF writing(hd.parsedMode)
    THEN IF ~hd.localPath
         THEN [out |-> Out("FileNotFoundError", files, nextId, <<>>), localPath |-> FALSE]
         ELSE LET u == upload(hd, backendFails) IN
              [out |-> u, localPath |-> u.err # "ok"]
    ELSE IF ~hd.localPath
         THEN [out |-> Out("FileNotFoundError", files, nextId, <<>>), localPath |-> FALSE]
         ELSE [out |-> Out("ok", files, nextId, <<>>), localPath |-> FALSE]

\* _download_request: the chunks of one media request; an HttpError of the
\* backend becomes OperationFailed
\* (the backend serves no media for a folder)
download_request(metadata, request, backendFails) ==
    IF backendFails \/ metadata.mimeType = folderMimeType
    THEN [err |-> "OperationFailed", data |-> <<>>, calls |-> <<request>>]
    ELSE [err |-> "ok", data |-> metadata.content, calls |-> <<request>>]

\* _export_as: files().export_media(fileId, mimeType)
export_as(metadata, backendFails) ==
    download_request(metadata, Call("export_media", metadata.id), backendFails)

\* GoogleDriveFS.download: the file's content, or its export when a mimetype is given
fsDownload(path, mimetype, backendFails) ==
    LET r == itemsFromPath(path) IN
    IF r.err # "ok" THEN [err |-> r.err, data |-> <<>>, calls |-> r.calls]
    ELSE IF ~Has(r, path)
    THEN [err |-> "ResourceNotFound", data |-> <<>>, calls |-> r.calls]
    ELSE LET d == IF mimetype
                  THEN export_as(Get(r, path), backendFails)
                  ELSE download_request(Get(r, path),
                                        Call("get_media", Get(r, path).id),
                                        backendFails) IN
         [err |-> d.err, data |-> d.data, calls |-> r.calls \o d.calls]

\* add_shortcut that does not look at what is at shortcut_path
add_shortcut_NoExistsCheck(shortcut_path, target_path) ==
    LET t == itemsFromPath(target_path) IN
    IF t.err # "ok" THEN Out(t.err, files, nextId, t.calls)
    ELSE IF ~Has(t, target_path) THEN Out("ResourceNotFound", files, nextId, t.calls)
    ELSE IF Get(t, target_path).mimeType = folderMimeType
    THEN Out("FileExpected", files, nextId, t.calls)
    ELSE LET s == itemsFromPath(shortcut_path)
             log == t.calls \o s.calls IN
         IF s.err # "ok" THEN Out(s.err, files, nextId, log)
         ELSE IF shortcut_path = Root \/ ~Has(s, dirname(shortcut_path))
         THEN Out("ResourceNotFound", files, nextId, log)
         ELSE LET parent == Get(s, dirname(shortcut_path)).id
                  name == basename(shortcut_path) IN
              Out("ok",
                  files \cup {[NewObject(nextId, name, parent, shortcutMimeType, <<>>)
                                 EXCEPT !.targetId = Get(t, target_path).id]},
                  nextId + 1,
                  Append(log, Request("create", nextId, name, parent)))

\* GoogleDriveFS.add_shortcut: a shortcut object at shortcut_path that points at the
\* file at target_path
add_shortcut(shortcut_path, target_path) ==
    LET t == itemsFromPath(target_path) IN
    IF t.err # "ok" THEN Out(t.err, files, nextId, t.calls)
    ELSE IF ~Has(t, target_path) THEN Out("ResourceNotFound", files, nextId, t.calls)
    ELSE IF Get(t, target_path).mimeType = folderMimeType
    THEN Out("FileExpected", files, nextId, t.calls)
    ELSE LET s == itemsFromPath(shortcut_path)
             log == t.calls \o s.calls IN
         IF s.err # "ok" THEN Out(s.err, files, nextId, log)
         ELSE IF Has(s, shortcut_path) THEN Out("DestinationExists", files, nextId, log)
         ELSE IF ~Has(s, dirname(shortcut_path))
         THEN Out("ResourceNotFound", files, nextId, log)
         ELSE LET parent == Get(s, dirname(shortcut_path)).id
                  name == basename(shortcut_path) IN
              Out("ok",
                  files \cup {[NewObject(nextId, name, parent, shortcutMimeType, <<>>)
                                 EXCEPT !.targetId = Get(t, target_path).id]},
                  nextId + 1,
                  Append(log, Request("create", nextId, name, parent)))

-----------------------------------------------------------------------------
(* The calls a client makes *)

Result(op, path, mode, recreate, h, err, data) ==
    [op |-> op, path |-> path, mode |-> mode, recreate |-> recreate, h |-> h,
     err |-> err, data |-> data, dst |-> Root, overwrite |-> FALSE, listing |-> <<>>,
     attrs |-> NoAttrs, email |-> NoEmail, role |-> "", purpose |-> "",
     info |-> NoInfo, flag |-> FALSE, url |-> NoUrl, backendFails |-> FALSE,
     stale |-> FALSE,
     n |-> IF op = "idle" \/ last.op = "idle" THEN 1 ELSE 2]

\* what the client did to an open handle, for the record
LocalOp(op, offset, data) == [op |-> op, offset |-> offset, data |-> data]

Idle == Result("idle", Root, "", FALSE, 0, "ok", <<>>)

\* a call starts when the previous one has returned, or repeats the previous call once
CanCall(op, path, mode, recreate, h) ==
    \/ last = Idle
    \/ /\ last.n = 1
       /\ last.op = op /\ last.path = path /\ last.mode = mode
       /\ last.recreate = recreate /\ last.h \in {0, h}

\* what a call that takes two paths returned or raised
Result2(op, src_path, dst_path, overwrite, err) ==
    [Result(op, src_path, "", FALSE, 0, err, <<>>) EXCEPT !.dst = dst_path,
                                                           !.overwrite = overwrite]

CanCall2(op, src_path, dst_path, overwrite) ==
    \/ last = Idle
    \/ /\ last.n = 1
       /\ last.op = op /\ last.path = src_path /\ last.dst = dst_path
       /\ last.overwrite = overwrite

\* validatepath that lets every path through
validatepath_Lax(path) == TRUE

\* FS.validatepath with invalid_path_chars ':\0': a segment that holds one is refused
BadNames == {"a:b"}
BadPaths == {<<"a:b">>}
validatepath(path) == \A i \in 1..Len(path) : path[i] \notin BadNames
Invalid == Out("InvalidPath", files, nextId, <<>>)

Backend(o) ==
    /\ o.nextId <= MaxId + 1
    /\ files' = o.files
    /\ nextId' = o.nextId
    /\ calls' = o.calls

Makedir(path, recreate) ==
    LET o == IF validatepath(path) THEN makedir(path, recreate) ELSE Invalid IN
    /\ path # Root
    /\ CanCall("makedir", path, "", recreate, 0)
    /\ Backend(o)
    /\ last' = Result("makedir", path, "", recreate, 0, o.err, <<>>)
    /\ UNCHANGED <<rootId, scene, clock, lock, threads, handles>>

Remove(path) ==
    LET o == IF validatepath(path) THEN remove(path) ELSE Invalid IN
    /\ CanCall("remove", path, "", FALSE, 0)
    /\ Backend(o)
    /\ last' = Result("remove", path, "", FALSE, 0, o.err, <<>>)
    /\ UNCHANGED <<rootId, scene, clock, lock, threads, handles>>

Removedir(path) ==
    LET o == IF validatepath(path) THEN removedir(path) ELSE Invalid IN
    /\ CanCall("removedir", path, "", FALSE, 0)
    /\ Backend(o)
    /\ last' = Result("removedir", path, "", FALSE, 0, o.err, <<>>)
    /\ UNCHANGED <<rootId, scene, clock, lock, threads, handles>>

Copy(src_path, dst_path, overwrite) ==
    LET o == IF validatepath(src_path) /\ validatepath(dst_path)
             THEN copy(src_path, dst_path, overwrite) ELSE Invalid IN
    /\ CanCall2("copy", src_path, dst_path, overwrite)
    /\ Backend(o)
    /\ last' = Result2("copy", src_path, dst_path, overwrite, o.err)
    /\ UNCHANGED <<rootId, scene, clock, lock, threads, handles>>

Move(src_path, dst_path, overwrite) ==
    LET o == IF validatepath(src_path) /\ validatepath(dst_path)
             THEN move(src_path, dst_path, overwrite) ELSE Invalid IN
    /\ CanCall2("move", src_path, dst_path, overwrite)
    /\ Backend(o)
    /\ last' = Result2("move", src_path, dst_path, overwrite, o.err)
    /\ UNCHANGED <<rootId, scene, clock, lock, threads, handles>>

Scandir(path) ==
    \E listing \in Listings(Matches(path)) : \E split \in Splits(Len(listing)) :
       LET o == IF validatepath(path) THEN scandir(path, listing, split)
                ELSE [err |-> "InvalidPath", children |-> <<>>, calls |-> <<>>] IN
       /\ CanCall("scandir", path, "", FALSE, 0)
       /\ calls' = o.calls
       /\ last' = [Result("scandir", path, "", FALSE, 0, o.err, <<>>)
                     EXCEPT !.listing = o.children]
       /\ UNCHANGED <<files, nextId, rootId, scene, clock, lock, threads, handles>>

Listdir(path) ==
    \E listing \in Listings(Matches(path)) : \E split \in Splits(Len(listing)) :
       LET o == IF validatepath(path) THEN listdir(path, listing, split)
                ELSE [err |-> "InvalidPath", children |-> <<>>, calls |-> <<>>] IN
       /\ CanCall("listdir", path, "", FALSE, 0)
       /\ calls' = o.calls
       /\ last' = [Result("listdir", path, "", FALSE, 0, o.err, <<>>)
                     EXCEPT !.listing = o.children]
       /\ UNCHANGED <<files, nextId, rootId, scene, clock, lock, threads, handles>>

\* a call of the metadata and sharing operations starts like any other
CanCallM(op, path, attrs, email, role, purpose) ==
    \/ last = Idle
    \/ /\ last.n = 1
       /\ last.op = op /\ last.path = path /\ last.attrs = attrs
       /\ last.email = email /\ last.role = role /\ last.purpose = purpose

ResultM(op, path, err) == Result(op, path, "", FALSE, 0, err, <<>>)

Getinfo(path) ==
    LET o == IF validatepath(path) THEN getinfo(path)
             ELSE [err |-> "InvalidPath", info |-> NoInfo, calls |-> <<>>] IN
    /\ CanCallM("getinfo", path, NoAttrs, NoEmail, "", "")
    /\ calls' = o.calls
    /\ last' = [ResultM("getinfo", path, o.err) EXCEPT !.info = o.info]
    /\ UNCHANGED <<files, nextId, rootId, scene, clock, lock, threads, handles>>

Setinfo(path, info) ==
    LET o == IF validatepath(path) THEN setinfo(path, info) ELSE Invalid IN
    /\ CanCallM("setinfo", path, info, NoEmail, "", "")
    /\ Backend(o)
    /\ last' = [ResultM("setinfo", path, o.err) EXCEPT !.attrs = info]
    /\ UNCHANGED <<rootId, scene, clock, lock, threads, handles>>

Share(path, email, role) ==
    LET o == IF validatepath(path) THEN share(path, email, role)
             ELSE [err |-> "InvalidPath", files |-> files, url |-> NoUrl, calls |-> <<>>] IN
    /\ CanCallM("share", path, NoAttrs, email, role, "")
    /\ files' = o.files
    /\ calls' = o.calls
    /\ last' = [ResultM("share", path, o.err) EXCEPT !.email = email, !.role = role,
                                                      !.url = o.url]
    /\ UNCHANGED <<nextId, rootId, scene, clock, lock, threads, handles>>

Hasurl(path, purpose) ==
    LET o == IF validatepath(path) THEN hasurl(path, purpose)
             ELSE [err |-> "InvalidPath", flag |-> FALSE, calls |-> <<>>] IN
    /\ CanCallM("hasurl", path, NoAttrs, NoEmail, "", purpose)
    /\ calls' = o.calls
    /\ last' = [ResultM("hasurl", path, o.err) EXCEPT !.purpose = purpose, !.flag = o.flag]
    /\ UNCHANGED <<files, nextId, rootId, scene, clock, lock, threads, handles>>

Geturl(path, purpose) ==
    LET o == IF validatepath(path) THEN geturl(path, purpose)
             ELSE [err |-> "InvalidPath", url |-> NoUrl, calls |-> <<>>] IN
    /\ CanCallM("geturl", path, NoAttrs, NoEmail, "", purpose)
    /\ calls' = o.calls
    /\ last' = [ResultM("geturl", path, o.err) EXCEPT !.purpose = purpose, !.url = o.url]
    /\ UNCHANGED <<files, nextId, rootId, scene, clock, lock, threads, handles>>

\* openbin(path, mode, **options): createdDateTime is the one option close() looks at
Openbin(path, mode, h) ==
    LET o == IF validatepath(path) THEN openbin(path, mode)
             ELSE [err |-> "InvalidPath", handle |-> FreeHandle, calls |-> <<>>] IN
    /\ CanCall("openbin", path, mode, FALSE, h)
    /\ handles[h].state # "open"
    /\ \A g \in Slots : g < h => handles[g].state = "open"
    /\ \E createdDateTime \in CreatedOptions :
          handles' = IF o.err = "ok"
                     THEN [handles EXCEPT ![h] =
                             [o.handle EXCEPT !.base = IF Exists(o.handle.thisMetadata)
                                                       THEN Obj(o.handle.thisMetadata).content
                                                       ELSE <<>>,
                                              !.createdDateTime = createdDateTime]]
                     ELSE handles
    /\ calls' = o.calls
    /\ last' = Result("openbin", path, mode, FALSE, IF o.err = "ok" THEN h ELSE 0, o.err, <<>>)
    /\ UNCHANGED <<files, nextId, rootId, scene, clock, lock, threads>>

\* a write that goes to the backend as well
Write_Through(h, data) ==
    LET hd == handles[h]
        w == localWrite(hd, data) IN
    /\ CanCall("write", hd.path, hd.parsedMode, FALSE, h)
    /\ hd.state = "open"
    /\ Len(hd.hist) < MaxLocalOps
    /\ Len(w.buf) <= LenCap
    /\ handles' = [handles EXCEPT ![h].buf = w.buf, ![h].pos = w.pos,
                                  ![h].hist = Append(@, LocalOp("write", 0, data))]
    /\ files' = {IF f.id = hd.thisMetadata THEN [f EXCEPT !.content = w.buf] ELSE f
                   : f \in files}
    /\ calls' = <<Call("update", hd.thisMetadata)>>
    /\ last' = Result("write", hd.path, hd.parsedMode, FALSE, h, w.err, data)
    /\ UNCHANGED <<nextId, rootId, scene, clock, lock, threads>>

Write(h, data) ==
    LET hd == handles[h]
        w == localWrite(hd, data) IN
    /\ CanCall("write", hd.path, hd.parsedMode, FALSE, h)
    /\ hd.state = "open"
    /\ Len(hd.hist) < MaxLocalOps
    /\ Len(w.buf) <= LenCap
    /\ handles' = [handles EXCEPT ![h].buf = w.buf, ![h].pos = w.pos,
                                  ![h].hist = Append(@, LocalOp("write", 0, data))]
    /\ calls' = <<>>
    /\ last' = Result("write", hd.path, hd.parsedMode, FALSE, h, w.err, data)
    /\ UNCHANGED <<files, nextId, rootId, scene, clock, lock, threads>>

Seek(h, offset) ==
    LET hd == handles[h] IN
    /\ CanCall("seek", hd.path, hd.parsedMode, FALSE, h)
    /\ hd.state = "open"
    /\ Len(hd.hist) < MaxLocalOps
    /\ offset \in 0..Len(hd.buf)
    /\ handles' = [handles EXCEPT ![h].pos = offset,
                                  ![h].hist = Append(@, LocalOp("seek", offset, <<>>))]
    /\ calls' = <<>>
    /\ last' = Result("seek", hd.path, hd.parsedMode, FALSE, h, "ok", <<>>)
    /\ UNCHANGED <<files, nextId, rootId, scene, clock, lock, threads>>

Read(h) ==
    LET hd == handles[h]
        r == localRead(hd) IN
    /\ CanCall("read", hd.path, hd.parsedMode, FALSE, h)
    /\ hd.state = "open"
    /\ Len(hd.hist) < MaxLocalOps
    /\ handles' = [handles EXCEPT ![h].pos = r.pos,
                                  ![h].hist = Append(@, LocalOp("read", 0, <<>>))]
    /\ calls' = <<>>
    /\ last' = Result("read", hd.path, hd.parsedMode, FALSE, h, r.err, r.data)
    /\ UNCHANGED <<files, nextId, rootId, scene, clock, lock, threads>>

\* for the record: the object the handle was opened on has, by now, a content that is
\* neither the one it had when the handle was opened nor the one the handle holds
Stale(hd) ==
    /\ hd.state = "open" /\ hd.thisMetadata # None /\ Exists(hd.thisMetadata)
    /\ Obj(hd.thisMetadata).content \notin {hd.base, hd.buf}

Close(h, backendFails) ==
    LET hd == handles[h]
        c == close(hd, backendFails) IN
    /\ CanCall("close", hd.path, hd.parsedMode, FALSE, h)
    /\ hd.state \in {"open", "closed"}
    /\ backendFails => hd.localPath /\ writing(hd.parsedMode)
    /\ Backend(c.out)
    /\ handles' = [handles EXCEPT ![h] =
                      IF c.localPath THEN [hd EXCEPT !.state = "closed"]
                      ELSE [FreeHandle EXCEPT !.state = "closed"]]
    /\ last' = [Result("close", hd.path, hd.parsedMode, FALSE, h, c.out.err, <<>>)
                   EXCEPT !.backendFails = backendFails, !.stale = Stale(hd)]
    /\ UNCHANGED <<rootId, scene, clock, lock, threads>>

\* GoogleDriveFS.download(path, file, mimetype = ...)
Download(path, mimetype, backendFails) ==
    LET o == IF validatepath(path) THEN fsDownload(path, mimetype, backendFails)
             ELSE [err |-> "InvalidPath", data |-> <<>>, calls |-> <<>>] IN
    /\ CanCall("download", path, "", FALSE, 0)
    /\ calls' = o.calls
    /\ last' = [Result("download", path, "", FALSE, 0, o.err, o.data)
                   EXCEPT !.flag = mimetype, !.backendFails = backendFails]
    /\ UNCHANGED <<files, nextId, rootId, scene, clock, lock, threads, handles>>

\* GoogleDriveFS.add_shortcut; the record keeps shortcut_path as path and
\* target_path as dst
AddShortcut(shortcut_path, target_path) ==
    LET o == IF validatepath(shortcut_path) /\ validatepath(target_path)
             THEN add_shortcut(shortcut_path, target_path) ELSE Invalid IN
    /\ CanCall2("add_shortcut", shortcut_path, target_path, FALSE)
    /\ Backend(o)
    /\ last' = Result2("add_shortcut", shortcut_path, target_path, FALSE, o.err)
    /\ UNCHANGED <<rootId, scene, clock, lock, threads, handles>>

\* FS.writebytes: openbin(path, 'wb'), one write, close
Writebytes(path, data) ==
    LET o == IF validatepath(path) THEN openbin(path, "w")
             ELSE [err |-> "InvalidPath", handle |-> FreeHandle, calls |-> <<>>]
        hd == [o.handle EXCEPT !.buf = localWrite(o.handle, data).buf]
        c == close(hd, FALSE).out IN
    /\ CanCall("writebytes", path, "w", FALSE, 0)
    /\ IF o.err # "ok"
       THEN /\ calls' = o.calls
            /\ last' = Result("writebytes", path, "w", FALSE, 0, o.err, data)
            /\ UNCHANGED <<files, nextId>>
       ELSE /\ Backend([c EXCEPT !.calls = o.calls \o c.calls])
            /\ last' = Result("writebytes", path, "w", FALSE, 0, c.err, data)
    /\ UNCHANGED <<rootId, scene, clock, lock, threads, handles>>

\* outside the adapter, an object is moved to the bin, and what is below it with it
Trash(id) ==
    /\ last = Idle
    /\ Exists(id) /\ ~Obj(id).trashed /\ id # rootId
    /\ files' = {IF f.id \in Descendants({id}) THEN [f EXCEPT !.trashed = TRUE] ELSE f
                   : f \in files}
    /\ UNCHANGED <<nextId, rootId, scene, clock, lock, threads, handles, last, calls>>

\* outside the adapter, somebody gives a file another content
ExternalWrite(id, data) ==
    /\ last = Idle
    /\ Exists(id) /\ Obj(id).mimeType # folderMimeType
    /\ Obj(id).content # data
    /\ files' = {IF f.id = id THEN [f EXCEPT !.content = data, !.modifiedTime = clock]
                 ELSE f : f \in files}
    /\ UNCHANGED <<nextId, rootId, scene, clock, lock, threads, handles, last, calls>>

\* time passes between two calls
Tick ==
    /\ last = Idle
    /\ clock < MaxClock
    /\ clock' = clock + 1
    /\ UNCHANGED <<files, nextId, rootId, scene, handles, last, calls, lock, threads>>

\* the call's result has been taken; the client is free to make any call
Return ==
    /\ last # Idle
    /\ last' = Idle
    /\ calls' = <<>>
    /\ UNCHANGED <<files, nextId, rootId, scene, clock, lock, threads, handles>>

-----------------------------------------------------------------------------
(* Client threads on one instance.  An operation of the facade runs inside
   "with self._lock"; each of its backend calls is a step of its own. *)

Threads == 1..MaxThreads
Unlocked == [owner |-> 0, count |-> 0]

\* stack holds the operations that wait for the operation they called; back says that
\* the call of the operation has returned
IdleThread(n) ==
    [pc |-> "idle", op |-> "", path |-> Root, h |-> 0, pending |-> <<>>, ops |-> n,
     stack |-> <<>>, back |-> FALSE]

\* the paths and the operations the threads use
LockPaths == {<<"a">>, <<"a", "b">>}
LockedOps == {"getinfo", "openbin"}

\* a backend call as the log of all threads records it
Tagged(t, c) ==
    [call |-> c.call, id |-> c.id, name |-> c.name, parent |-> c.parent,
     thread |-> t, op |-> threads[t].ops, locked |-> lock.owner = t]

\* the operation that an operation calls on the same path inside its with block
Callee(op) ==
    CASE op = "share" -> "geturl"
      [] op = "geturl" -> "getinfo"
      [] op = "hasurl" -> "getinfo"
      [] op = "listdir" -> "scandir"
      [] OTHER -> ""

\* share(path) shares with anybody, as a reader
AnyoneReader == [role |-> "reader", type |-> "anyone", emailAddress |-> NoEmail]

\* the backend calls an operation makes itself, those of the operation it calls left out
OwnCalls(op, path) ==
    LET r == itemsFromPath(path) IN
    CASE op \in {"geturl", "hasurl", "listdir"} -> <<>>
      [] op = "share" -> IF r.err = "ok" /\ Has(r, path)
                         THEN Append(r.calls, Call("permit", Get(r, path).id))
                         ELSE r.calls
      [] op = "scandir" -> IF r.err = "ok" /\ Has(r, path)
                              /\ Get(r, path).mimeType = folderMimeType
                           THEN Append(r.calls, ListCall(Get(r, path).id, ""))
                           ELSE r.calls
      [] OTHER -> r.calls

\* share raises before it comes to its call of geturl when the path leads nowhere
ComesToCall(op, path) ==
    /\ Callee(op) # ""
    /\ op = "share" => LET r == itemsFromPath(path) IN r.err = "ok" /\ Has(r, path)

\* Lock.acquire of a lock that is not reentrant: the holder waits for itself
Acquire_NonReentrant(t) ==
    /\ threads[t].pc = "acquire"
    /\ lock.owner = 0
    /\ lock' = [owner |-> t, count |-> lock.count + 1]
    /\ threads' = [threads EXCEPT ![t].pc = "locked",
                                  ![t].pending = OwnCalls(threads[t].op, threads[t].path)]
    /\ UNCHANGED <<files, nextId, rootId, scene, clock, handles, last, calls>>

\* a thread calls getinfo(path) or openbin(path, 'w')
StartOp(t, op, path) ==
    /\ threads[t].pc = "idle"
    /\ threads[t].ops < MaxOps
    /\ threads' = [threads EXCEPT ![t].pc = "acquire", ![t].op = op, ![t].path = path]
    /\ UNCHANGED <<files, nextId, rootId, scene, clock, handles, last, calls, lock>>

\* with self._lock: the thread waits until the lock is free; the lookups of the path follow
Acquire(t) ==
    /\ threads[t].pc = "acquire"
    /\ lock.owner \in {0, t}
    /\ lock' = [owner |-> t, count |-> lock.count + 1]
    /\ threads' = [threads EXCEPT ![t].pc = "locked",
                                  ![t].pending = OwnCalls(threads[t].op, threads[t].path)]
    /\ UNCHANGED <<files, nextId, rootId, scene, clock, handles, last, calls>>

\* the next backend call of a facade operation
BackendStep(t) ==
    /\ threads[t].pc = "locked"
    /\ threads[t].pending # <<>>
    /\ calls' = Append(calls, Tagged(t, Head(threads[t].pending)))
    /\ files' = IF Head(threads[t].pending).call = "permit"
                 THEN backendPermit(files, Head(threads[t].pending).id, AnyoneReader)
                 ELSE files
    /\ threads' = [threads EXCEPT ![t].pending = Tail(@)]
    /\ UNCHANGED <<nextId, rootId, scene, clock, handles, last, lock>>

\* self.geturl(path), self.getinfo(path), self.scandir(path) inside the with block: the
\* operation called comes to its own with block, on the same thread
CallNested(t) ==
    LET th == threads[t] IN
    /\ th.pc = "locked"
    /\ th.pending = <<>>
    /\ ~th.back
    /\ ComesToCall(th.op, th.path)
    /\ threads' = [threads EXCEPT ![t].pc = "acquire", ![t].op = Callee(th.op),
                                  ![t].stack = Append(th.stack, th.op)]
    /\ UNCHANGED <<files, nextId, rootId, scene, clock, handles, last, calls, lock>>

\* the end of the with block; openbin hands out its handle
Release(t) ==
    LET th == threads[t]
        o == openbin(th.path, "w")
        free == {h \in Slots : handles[h].state # "open"} IN
    /\ th.pc = "locked"
    /\ th.pending = <<>>
    /\ th.back \/ ~ComesToCall(th.op, th.path)
    /\ lock' = IF lock.count = 1 THEN Unlocked ELSE [lock EXCEPT !.count = @ - 1]
    /\ handles' = IF th.op = "openbin" /\ o.err = "ok" /\ free # {}
                  THEN [handles EXCEPT ![CHOOSE h \in free : TRUE] = o.handle]
                  ELSE handles
    /\ threads' = [threads EXCEPT ![t] =
                      IF th.stack = <<>> THEN IdleThread(th.ops + 1)
                      ELSE [th EXCEPT !.op = th.stack[Len(th.stack)],
                                      !.stack = SubSeq(th.stack, 1, Len(th.stack) - 1),
                                      !.back = TRUE]]
    /\ UNCHANGED <<files, nextId, rootId, scene, clock, last, calls>>

\* _UploadOnClose.close, called by the thread that holds the handle: no with block
StartClose(t, h) ==
    /\ threads[t].pc = "idle"
    /\ threads[t].ops < MaxOps
    /\ handles[h].state = "open"
    /\ \A u \in Threads : threads[u].pc = "closing" => threads[u].h # h
    /\ threads' = [threads EXCEPT ![t].pc = "closing", ![t].op = "close", ![t].h = h,
                                  ![t].path = handles[h].path]
    /\ UNCHANGED <<files, nextId, rootId, scene, clock, handles, last, calls, lock>>

\* the create or update request of close(), and the end of close()
Upload(t) ==
    LET th == threads[t]
        c == close(handles[th.h], FALSE) IN
    /\ th.pc = "closing"
    /\ c.out.nextId <= MaxId + 1
    /\ files' = c.out.files
    /\ nextId' = c.out.nextId
    /\ calls' = calls \o [i \in 1..Len(c.out.calls) |-> Tagged(t, c.out.calls[i])]
    /\ handles' = [handles EXCEPT ![th.h] = [FreeHandle EXCEPT !.state = "closed"]]
    /\ threads' = [threads EXCEPT ![t] = IdleThread(th.ops + 1)]
    /\ UNCHANGED <<rootId, scene, clock, last, lock>>

-----------------------------------------------------------------------------

InitFiles(root) == IF root = None THEN {} ELSE {altRootMetadata}

InitScene(sc) ==
    /\ scene = sc
    /\ rootId \in (IF sc \in TreeScenes THEN {None, AltRootId} ELSE {None})
    /\ files = InitFiles(rootId)
    /\ nextId = 1
    /\ handles = [h \in Slots |-> FreeHandle]
    /\ last = Idle
    /\ calls = <<>>
    /\ clock = 0
    /\ lock = Unlocked
    /\ threads = [t \in Threads |-> IdleThread(0)]

Init == InitScene("tree")
InitIO == InitScene("bytes")

\* the directory level: no handle outlives a call
Next ==
    \/ \E path \in Paths, recreate \in BOOLEAN : Makedir(path, recreate)
    \/ \E path \in Paths : Remove(path)
    \/ \E path \in Paths : Removedir(path)
    \/ \E path \in Paths, data \in {<<>>} \cup Chunks : Writebytes(path, data)
    \/ \E id \in 1..MaxId : Trash(id)
    \/ Return

\* the directory level with handles held open across calls
NextOpen ==
    \/ \E path \in Paths, recreate \in BOOLEAN : Makedir(path, recreate)
    \/ \E path \in Paths : Remove(path)
    \/ \E path \in Paths : Removedir(path)
    \/ \E path \in Paths, mode \in OpenModes, h \in Slots : Openbin(path, mode, h)
    \/ \E h \in Slots, data \in Chunks : Write(h, data)
    \/ \E h \in Slots, backendFails \in BOOLEAN : Close(h, backendFails)
    \/ Return

\* one file, byte by byte
NextIO ==
    \/ \E path \in Paths, mode \in OpenModes, h \in Slots : Openbin(path, mode, h)
    \/ \E h \in Slots, data \in Chunks : Write(h, data)
    \/ \E h \in Slots, offset \in 0..LenCap : Seek(h, offset)
    \/ \E h \in Slots : Read(h)
    \/ \E h \in Slots : Close(h, FALSE)
    \/ Return

\* files copied and moved about the tree
NextCopy ==
    \/ \E path \in Paths \cup BadPaths, recreate \in BOOLEAN : Makedir(path, recreate)
    \/ \E path \in Paths \cup BadPaths : Remove(path)
    \/ \E path \in Paths \cup BadPaths : Removedir(path)
    \/ \E path \in Paths \cup BadPaths, data \in {<<>>} \cup Chunks : Writebytes(path, data)
    \/ \E src_path \in Paths \cup BadPaths, dst_path \in Paths \cup BadPaths,
          overwrite \in BOOLEAN : Copy(src_path, dst_path, overwrite)
    \/ \E src_path \in Paths \cup BadPaths, dst_path \in Paths \cup BadPaths,
          overwrite \in BOOLEAN : Move(src_path, dst_path, overwrite)
    \/ Return

Spec == Init /\ [][Next]_vars
SpecOpen == Init /\ [][NextOpen]_vars
SpecIO == InitIO /\ [][NextIO]_vars
SpecCopy == Init /\ [][NextCopy]_vars

\* directory listings of a tree that grows and gets trashed
NextList ==
    \/ \E path \in Paths, recreate \in BOOLEAN : Makedir(path, recreate)
    \/ \E path \in Paths, data \in {<<>>} \cup Chunks : Writebytes(path, data)
    \/ \E id \in 1..MaxId : Trash(id)
    \/ \E path \in Paths : Scandir(path)
    \/ \E path \in Paths : Listdir(path)
    \/ Return

SpecList == Init /\ [][NextList]_vars

\* the google metadata of a small tree
InitMeta == InitScene("meta")

NextMeta ==
    \/ \E path \in Paths : Makedir(path, FALSE)
    \/ \E path \in Paths, data \in Chunks : Writebytes(path, data)
    \/ \E path \in Paths : Getinfo(path)
    \/ \E path \in Paths, info \in AttrInputs : Setinfo(path, info)
    \/ Return

SpecMeta == InitMeta /\ [][NextMeta]_vars

\* sharing, and every operation that takes one path, on a small tree
InitShare == InitScene("share")

NextShare ==
    \/ \E path \in Paths : Makedir(path, FALSE)
    \/ \E path \in Paths, data \in Chunks : Writebytes(path, data)
    \/ \E path \in Paths : Remove(path)
    \/ \E path \in Paths : Removedir(path)
    \/ \E path \in Paths : Scandir(path)
    \/ \E path \in Paths : Listdir(path)
    \/ \E path \in Paths : Getinfo(path)
    \/ \E path \in Paths, info \in AttrInputs : Setinfo(path, info)
    \/ \E path \in Paths, email \in Emails, role \in Roles : Share(path, email, role)
    \/ \E path \in Paths, purpose \in Purposes : Hasurl(path, purpose)
    \/ \E path \in Paths, purpose \in Purposes : Geturl(path, purpose)
    \/ Return

SpecShare == InitShare /\ [][NextShare]_vars

\* one file written, appended to and stamped while the clock runs
InitTime == InitScene("time")

NextTime ==
    \/ \E path \in Paths, mode \in OpenModes, h \in Slots : Openbin(path, mode, h)
    \/ \E h \in Slots, data \in Chunks : Write(h, data)
    \/ \E h \in Slots, backendFails \in BOOLEAN : Close(h, backendFails)
    \/ \E path \in Paths : Getinfo(path)
    \/ \E path \in Paths, info \in AttrInputs : Setinfo(path, info)
    \/ Tick
    \/ Return

SpecTime == InitTime /\ [][NextTime]_vars

\* two threads that look paths up, open files for writing and close them
InitLock == InitScene("lock")

NextLock ==
    \/ \E t \in Threads, op \in LockedOps, path \in LockPaths : StartOp(t, op, path)
    \/ \E t \in Threads : Acquire(t)
    \/ \E t \in Threads : BackendStep(t)
    \/ \E t \in Threads : Release(t)
    \/ \E t \in Threads, h \in Slots : StartClose(t, h)
    \/ \E t \in Threads : Upload(t)

SpecLock == InitLock /\ [][NextLock]_vars

-----------------------------------------------------------------------------
(* What the claims speak of *)

RootObject == IF rootId = None THEN RootMarker ELSE rootId

\* the identifiers of the non-trashed objects a path leads to
RECURSIVE At(_)
At(path) ==
    IF path = Root THEN (IF rootId = None \/ Exists(rootId) THEN {RootObject} ELSE {})
    ELSE {f.id : f \in {g \in files : /\ ~g.trashed
                                        /\ g.name = path[Len(path)]
                                        /\ g.parent \in At(SubSeq(path, 1, Len(path) - 1))}}

AllPaths == TreePaths \cup BytePaths
Prefixes(path) == {SubSeq(path, 1, n) : n \in 0..Len(path)}
\* the path leads to one object, and so does each of its prefixes
Resolves(path) == \A q \in Prefixes(path) : Cardinality(At(q)) = 1
\* the path leads to nothing, and no prefix of it is ambiguous
Absent(path) == At(Root) # {} /\ At(path) = {} /\ \A q \in Prefixes(path) : Cardinality(At(q)) <= 1
ObjectAt(path) == Obj(CHOOSE id \in At(path) : TRUE)
IsFolderAt(path) == path = Root \/ ObjectAt(path).mimeType = folderMimeType
NonTrashedChildren(id) == {f \in files : f.parent = id /\ ~f.trashed}
MutatingCalls == {"create", "update", "delete", "copy", "permit"}
Mutating(log) == {i \in 1..Len(log) : log[i].call \in MutatingCalls}

\* a step that is a call of op, and not the return from one
Called(op) == last' # Idle /\ last'.op = op

Max(a, b) == IF a >= b THEN a ELSE b
\* C with the bytes at offsets k .. k + |W| - 1 replaced by W
Overwrite(C, k, W) ==
    [i \in 1..Max(Len(C), k + Len(W)) |-> IF i > k /\ i <= k + Len(W) THEN W[i - k] ELSE C[i]]

(* C1: for a file whose remote content is C when it is opened, opening it in append mode,
   writing W and closing leaves remote content C followed by W; opening it in
   r+ mode, seeking to offset k <= |C|, writing W and closing leaves C with
   the bytes at offsets k .. k+|W|-1 replaced by W ("AAA", append "BBB":
   "AAABBB"; then r+, seek 1, write "X": "AXABBB"). *)
C1_AppendAndOverwrite ==
    [][\A h \in Slots :
         (Called("close") /\ last'.h = h /\ last'.err = "ok"
          /\ handles[h].state = "open" /\ Exists(handles[h].thisMetadata)) =>
            LET hd == handles[h]
                id == hd.thisMetadata
                C == hd.base IN
            /\ (hd.parsedMode = "a" /\ Len(hd.hist) = 1 /\ hd.hist[1].op = "write") =>
                  \E f \in files' : f.id = id /\ f.content = C \o hd.hist[1].data
            /\ (hd.parsedMode = "r+" /\ Len(hd.hist) = 2
                /\ hd.hist[1].op = "seek" /\ hd.hist[2].op = "write") =>
                  \E f \in files' :
                     f.id = id /\ f.content = Overwrite(C, hd.hist[1].offset, hd.hist[2].data)]_vars

C1_Witness ==
    /\ last.op = "close" /\ last.mode = "r+" /\ last.err = "ok"
    /\ \E f \in files : f.content = <<"A", "X", "A", "B", "B", "B">>

(* C2: closing a handle opened in a writing mode issues exactly one remote
   content write: a create (name = last path segment, parent = the parent
   resolved at open) if no object existed at the path when openbin ran,
   otherwise an update of that same object; also when the final content is
   empty, and then the object exists with zero-length content. Closing a
   handle not opened for writing issues no remote write. *)
C2_CloseWritesOnce ==
    [][\A h \in Slots :
         /\ (Called("close") /\ last'.h = h /\ handles[h].state = "open") =>
               LET hd == handles[h] IN
               IF writing(hd.parsedMode)
               THEN /\ Len(calls') = 1
                    /\ IF hd.thisMetadata = None
                       THEN /\ calls'[1].call = "create"
                            /\ calls'[1].name = hd.path[Len(hd.path)]
                            /\ calls'[1].parent = hd.parentMetadata
                       ELSE /\ calls'[1].call = "update"
                            /\ calls'[1].id = hd.thisMetadata
                    /\ (last'.err = "ok" /\ hd.buf = <<>>) =>
                          \E f \in files' : f.id = calls'[1].id /\ f.content = <<>>
               ELSE calls' = <<>> /\ files' = files
         /\ \A P \in AllPaths :
               (Called("openbin") /\ last'.h = h /\ last'.path = P /\ last'.err = "ok") =>
                  /\ handles'[h].thisMetadata = None <=> At(P) = {}
                  /\ handles'[h].thisMetadata # None => At(P) = {handles'[h].thisMetadata}
                  /\ writing(last'.mode) => At(dirname(P)) = {handles'[h].parentMetadata}]_vars

C2_Witness ==
    /\ last.op = "close" /\ last.err = "ok" /\ Len(calls) = 1
    /\ calls[1].call = "create" /\ calls[1].parent \notin {RootMarker, AltRootId}
    /\ \E f \in files : f.id = calls[1].id /\ f.content = <<>> /\ f.name = "b"

(* C3: between the return of openbin and the call of close, every read, write
   and seek on the handle issues no backend call and leaves the remote object
   unchanged; the handle changes the remote object in its close only. *)
C3_LocalUntilClose ==
    [][/\ (Called("read") \/ Called("write") \/ Called("seek")) =>
             calls' = <<>> /\ files' = files
       /\ files' # files => Called("close")]_vars

C3_Witness ==
    \E h \in Slots :
       /\ last.op = "write" /\ last.err = "ok" /\ last.h = h
       /\ handles[h].state = "open" /\ Exists(handles[h].thisMetadata)
       /\ Obj(handles[h].thisMetadata).content # handles[h].buf

(* C4: after close of a staged file handle has returned or raised, the
   handle's scratch file no longer exists, whether or not an upload occurred
   and also when the backend call made during close fails. *)
C4_ScratchFileRemoved ==
    \A h \in Slots : handles[h].state = "closed" => ~handles[h].localPath

(* C5: whenever makedir(P) succeeds, immediately afterwards P resolves to an
   object, getinfo(P).is_dir is true and exists(P) is true. *)
C5_MakedirMakesDirectory ==
    (last.op = "makedir" /\ last.err = "ok") =>
        /\ Resolves(last.path)
        /\ getinfo(last.path).err = "ok"
        /\ getinfo(last.path).info.is_dir

(* C6: makedir(P, recreate=False) called twice in a row raises already-exists
   on the second call and creates nothing on that call; makedir(P,
   recreate=True) called twice succeeds both times, the second call creates
   no backend object, and both results refer to the same directory. *)
C6_MakedirTwice ==
    [][(last.op = "makedir" /\ last.err = "ok" /\ Called("makedir")
        /\ last'.path = last.path /\ last'.recreate = last.recreate) =>
         /\ files' = files
         /\ Mutating(calls') = {}
         /\ IF last.recreate
            THEN /\ last'.err = "ok"
                 /\ Cardinality(At(last.path)) = 1
                 /\ At(last.path)' = At(last.path)
                 /\ IsFolderAt(last.path)
            ELSE last'.err = "DirectoryExists"]_vars

(* C7: openbin(path, mode) fails, returns no handle and mutates nothing on
   the backend when the mode is exclusive-create and an object exists at path
   (already-exists), when the mode reads without create and no object exists
   at path (not-found), when the mode writes and the parent of path does not
   exist (not-found), and when the object at path is a folder, in every mode. *)
C7_OpenbinRefuses ==
    [][\A P \in AllPaths, m \in Modes :
         (Called("openbin") /\ last'.path = P /\ last'.mode = m) =>
            /\ (exclusive(m) /\ Resolves(P)) => last'.err = "FileExists"
            /\ (reading(m) /\ ~create(m) /\ Absent(P)) => last'.err = "ResourceNotFound"
            /\ (writing(m) /\ Absent(dirname(P))) => last'.err = "ResourceNotFound"
            /\ (Resolves(P) /\ IsFolderAt(P)) => last'.err \in {"FileExpected", "FileExists"}
            /\ last'.err # "ok" =>
                  /\ handles' = handles
                  /\ files' = files
                  /\ Mutating(calls') = {}
                  /\ last'.h = 0]_vars

C7_Witness ==
    /\ last.op = "openbin" /\ last.mode = "w" /\ last.err = "ResourceNotFound"
    /\ Len(last.path) = 2 /\ Absent(dirname(last.path))
    /\ files # InitFiles(rootId)

(* C8: removedir(P) on a folder that has at least one non-trashed child fails
   with not-empty and deletes nothing; on a folder that has none (every child
   removed) it succeeds and P no longer resolves. *)
C8_RemovedirNeedsEmpty ==
    [][\A P \in AllPaths \ {Root} :
         (Called("removedir") /\ last'.path = P /\ Resolves(P) /\ IsFolderAt(P)) =>
            LET F == ObjectAt(P) IN
            IF NonTrashedChildren(F.id) # {}
            THEN /\ last'.err = "DirectoryNotEmpty"
                 /\ files' = files
                 /\ Mutating(calls') = {}
            ELSE /\ last'.err = "ok"
                 /\ At(P)' = {}
                 /\ F \notin files']_vars

C8_Witness ==
    /\ last.op = "removedir" /\ last.err = "DirectoryNotEmpty"
    /\ Resolves(last.path)
    /\ NonTrashedChildren(ObjectAt(last.path).id) # {}

(* C9: remove("/") and removedir("/") always fail with the remove-root error,
   in every backend state and with the default root and an alternate root,
   and delete no backend object. *)
C9_RootIsNeverRemoved ==
    [][((Called("remove") \/ Called("removedir")) /\ last'.path = Root) =>
         /\ last'.err = "RemoveRootError"
         /\ files' = files
         /\ calls' = <<>>]_vars

C9_Witness ==
    /\ last.op = "removedir" /\ last.path = Root /\ last.err = "RemoveRootError"
    /\ rootId = AltRootId
    /\ NonTrashedChildren(AltRootId) = {}
    /\ nextId > 1

(* C10: remove(P) on an existing non-folder object deletes exactly that
   object: afterwards P does not resolve and every other backend object is
   unchanged. remove(P) on a missing path raises not-found and on a folder
   raises expected-file, in both cases deleting nothing. *)
C10_RemoveDeletesOneFile ==
    [][\A P \in AllPaths \ {Root} :
         (Called("remove") /\ last'.path = P) =>
         /\ (Resolves(P) /\ ~IsFolderAt(P)) =>
                /\ last'.err = "ok"
                /\ files' = files \ {ObjectAt(P)}
                /\ At(P)' = {}
         /\ Absent(P) =>
                /\ last'.err = "ResourceNotFound"
                /\ files' = files
                /\ Mutating(calls') = {}
         /\ (Resolves(P) /\ IsFolderAt(P)) =>
                /\ last'.err = "FileExpected"
                /\ files' = files
                /\ Mutating(calls') = {}]_vars

C10_Witness ==
    /\ last.op = "remove" /\ last.err = "ok"
    /\ Absent(last.path)
    /\ \E f \in files : ~f.trashed /\ f.id # rootId

\* the path leads to one object or to none, with no ambiguous prefix
Plain(path) == Resolves(path) \/ Absent(path)

\* every object lies in a folder, and so will whatever is put at the path
InFolders(path) ==
    /\ \A f \in files : f.id # rootId => \/ f.parent = RootObject
                                         \/ /\ Exists(f.parent)
                                            /\ Obj(f.parent).mimeType = folderMimeType
    /\ Resolves(dirname(path)) => IsFolderAt(dirname(path))

\* the errors the contract of copy and move names, for the state the call finds
TwoPathErrors(S, D, ow) ==
    (IF Absent(S) \/ Absent(dirname(D)) THEN {"ResourceNotFound"} ELSE {})
    \cup (IF Resolves(S) /\ IsFolderAt(S) THEN {"FileExpected"} ELSE {})
    \cup (IF Resolves(D) /\ ~ow THEN {"DestinationExists"} ELSE {})

CallsOf(log, c) == {i \in 1..Len(log) : log[i].call = c}

(* C11: for all paths src and dst (src = dst included) and both values of
   overwrite: copy fails with not-found when src or the parent of dst is
   missing, with expected-file when src is a folder, with destination-exists
   when dst exists and overwrite is false, and otherwise succeeds; after it
   succeeds dst resolves to a file whose content is the content src had
   before the call, and src still resolves to its original object, unchanged.
   Stated for destinations that are not folders and lie in folders. *)
C11_CopyCopies ==
    [][\A S \in AllPaths, D \in AllPaths, ow \in BOOLEAN :
         (Called("copy") /\ last'.path = S /\ last'.dst = D /\ last'.overwrite = ow
          /\ Plain(S) /\ Plain(D) /\ InFolders(D)
          /\ ~(Resolves(D) /\ IsFolderAt(D))) =>
            LET E == TwoPathErrors(S, D, ow) IN
            /\ E # {} => last'.err \in E
            /\ E = {} => last'.err = "ok"
            /\ last'.err = "ok" =>
                  /\ Resolves(D)'
                  /\ ~IsFolderAt(D)'
                  /\ ObjectAt(D)'.content = ObjectAt(S).content
                  /\ At(S)' = At(S)
                  /\ ObjectAt(S)' = ObjectAt(S)]_vars

(* C12: for all paths src and dst (src = dst included) and both values of
   overwrite: move fails with not-found when src or the parent of dst is
   missing, with expected-file when src is a folder, with destination-exists
   when dst exists and overwrite is false, and otherwise succeeds; after it
   succeeds dst resolves to the object src resolved to, with the same
   content, renamed and re-parented by a single update call, and src no
   longer resolves when it differs from dst.  Stated for destinations that
   are not folders and lie in folders. *)
C12_MoveMoves ==
    [][\A S \in AllPaths, D \in AllPaths, ow \in BOOLEAN :
         (Called("move") /\ last'.path = S /\ last'.dst = D /\ last'.overwrite = ow
          /\ Plain(S) /\ Plain(D) /\ InFolders(D)
          /\ ~(Resolves(D) /\ IsFolderAt(D))) =>
            LET E == TwoPathErrors(S, D, ow) IN
            /\ E # {} => last'.err \in E
            /\ E = {} => last'.err = "ok"
            /\ last'.err = "ok" =>
                  /\ Resolves(D)'
                  /\ At(D)' = At(S)
                  /\ ObjectAt(D)'.content = ObjectAt(S).content
                  /\ Cardinality(CallsOf(calls', "update")) = 1
                  /\ CallsOf(calls', "create") \cup CallsOf(calls', "copy") = {}
                  /\ S # D => At(S)' = {}]_vars

\* the errors a facade operation raises from its own checks
CheckedErrors ==
    {"ResourceNotFound", "DirectoryExists", "FileExists", "DestinationExists", "FileExpected",
     "DirectoryExpected", "DirectoryNotEmpty", "InvalidPath", "RemoveRootError"}

(* C13: every facade operation that ends with a not-found, already-exists,
   destination-exists, expected-file, expected-directory, not-empty,
   invalid-path or remove-root error has issued no mutating backend call;
   in copy and move with overwrite the delete of the existing destination is
   issued only after the checks have passed: the source exists and is a
   file, the parent of the destination exists, and nothing but lookups
   precedes the delete. *)
C13_ChecksBeforeMutation ==
    [][/\ (last' # Idle /\ last'.err \in CheckedErrors) =>
             Mutating(calls') = {} /\ files' = files
       /\ \A S \in AllPaths, D \in AllPaths :
             ((Called("copy") \/ Called("move")) /\ last'.path = S /\ last'.dst = D
              /\ CallsOf(calls', "delete") # {}) =>
                /\ last'.overwrite
                /\ Resolves(S) /\ ~IsFolderAt(S)
                /\ Resolves(dirname(D))
                /\ Resolves(D)
                /\ Cardinality(CallsOf(calls', "delete")) = 1
                /\ \A i \in CallsOf(calls', "delete") :
                      /\ calls'[i].id \in At(D)
                      /\ \A j \in 1..(i - 1) : calls'[j].call \in {"list", "get"}
                      /\ \A j \in Mutating(calls') : j >= i]_vars

C13_Witness ==
    /\ last.op = "move" /\ last.overwrite /\ last.err = "ok" /\ last.path # last.dst
    /\ Cardinality(CallsOf(calls, "delete")) = 1
    /\ Cardinality(CallsOf(calls, "update")) = 1
    /\ Len(last.dst) = 2

\* how often x occurs in the sequence s
Count(s, x) == Cardinality({i \in 1..Len(s) : s[i] = x})

(* C14: a successful scandir or listdir of a directory reports every
   non-trashed child of that directory exactly once, in whatever order and
   however many pages the backend delivers the children: scandir has one
   entry per child identifier and nothing else, listdir has each name as
   often as there are children of that name. *)
C14_ListingIsComplete ==
    [][\A P \in AllPaths :
         (last' # Idle /\ last'.path = P /\ last'.err = "ok" /\ Resolves(P)) =>
            LET kids == NonTrashedChildren(CHOOSE id \in At(P) : TRUE) IN
            /\ Called("scandir") =>
                  /\ Len(last'.listing) = Cardinality(kids)
                  /\ \A f \in kids :
                        Count([i \in 1..Len(last'.listing) |-> last'.listing[i].id], f.id) = 1
            /\ Called("listdir") =>
                  /\ Len(last'.listing) = Cardinality(kids)
                  /\ \A f \in kids :
                        Count(last'.listing, f.name)
                          = Cardinality({g \in kids : g.name = f.name})]_vars

\* a listing of two children that came in three pages, one of them empty
C14_Witness ==
    /\ last.op = "scandir" /\ last.err = "ok"
    /\ Len(last.listing) = 2
    /\ CallsOf(calls, "list") \cap {i \in 1..Len(calls) : calls[i].name = ""} = (Len(calls) - 2)..Len(calls)
    /\ Len(calls) >= 3

\* the root that is made up by the adapter, not fetched from the backend
SyntheticRoot(path) == path = Root /\ rootId = None

\* setinfo has just returned: it succeeded, and getinfo of the same path shows each given
\* key with its value, or without the key when the value is None
SetinfoShows ==
    LET given == last.attrs
        shown == getinfo(last.path) IN
    /\ last.err = "ok"
    /\ shown.err = "ok"
    /\ "appProperties" \in given.names =>
          \A kv \in given.appProperties :
             IF kv[2] # None THEN kv \in shown.info.appProperties
             ELSE kv[1] \notin Keys(shown.info.appProperties)

\* a setinfo of P that gives no app properties leaves those of the object as they were
SetinfoKeeps(P) ==
    ("appProperties" \notin last'.attrs.names /\ ~SyntheticRoot(P)) =>
       ObjectAt(P)'.appProperties = ObjectAt(P).appProperties

(* C15, as the specification states it: for every existing path P, setinfo
   with app properties {k: v} makes getinfo(P) show k mapped to v, with
   {k: None} makes k absent, and a setinfo of only indexableText or only the
   modified time leaves the app properties as they were. *)
C15_SetinfoRoundTrip ==
    /\ []((last.op = "setinfo" /\ Resolves(last.path)) => SetinfoShows)
    /\ [][\A P \in AllPaths :
            (Called("setinfo") /\ last'.path = P /\ Resolves(P)) => SetinfoKeeps(P)]_vars

(* C15, amended: the same round trip for every existing path P other than
   the synthetic root, whose info is made up from a constant and shows no
   app properties whatever the backend holds. *)
C15_SetinfoRoundTripBelowRoot ==
    /\ []((last.op = "setinfo" /\ Resolves(last.path) /\ ~SyntheticRoot(last.path)) =>
            SetinfoShows)
    /\ [][\A P \in AllPaths :
            (Called("setinfo") /\ last'.path = P /\ Resolves(P) /\ ~SyntheticRoot(P)) =>
               SetinfoKeeps(P)]_vars

\* a setinfo of indexableText alone on an object that has app properties
C15_Witness ==
    /\ last.op = "setinfo" /\ last.err = "ok" /\ ~SyntheticRoot(last.path)
    /\ last.attrs.names = {"indexableText"}
    /\ Resolves(last.path)
    /\ getinfo(last.path).info.appProperties = {<<"k", 1>>, <<"j", 2>>}

\* an object as its creation left it: nothing has touched its times since
Fresh(f) == f.modifiedTime = f.createdTime /\ f.createdTime <= clock

\* the handle h wrote something before this step
Wrote(h) == \E i \in 1..Len(handles[h].hist) : handles[h].hist[i].op = "write"

(* C16: when a file is as its creation left it and a handle opened on it in
   append mode is written to and closed at a later time, the info of the
   file has the same created time after the close as before it and a
   modified time strictly greater than before it. *)
C16_AppendAdvancesModified ==
    [][\A h \in Slots, id \in 1..MaxId :
         (/\ Called("close") /\ last'.h = h /\ last'.err = "ok"
          /\ handles[h].state = "open" /\ handles[h].parsedMode = "a" /\ Wrote(h)
          /\ handles[h].thisMetadata = id
          /\ Exists(id) /\ Fresh(Obj(id)) /\ clock > Obj(id).modifiedTime) =>
            /\ InfoFromMetadata(Obj(id))'.created = InfoFromMetadata(Obj(id)).created
            /\ InfoFromMetadata(Obj(id))'.modified > InfoFromMetadata(Obj(id)).modified]_vars

\* setinfo of a modified time has just returned and getinfo reports that time
SetinfoShowsModified ==
    /\ last.err = "ok"
    /\ getinfo(last.path).err = "ok"
    /\ getinfo(last.path).info.modified = last.attrs.modified

(* C17: a close that creates the object of a handle opened with the
   createdDateTime option gives it that created time, to the second, whatever
   the time of the close; a close that updates an existing object leaves its
   created time alone, option or not; and after setinfo with a modified time,
   getinfo reports that modified time. *)
C17_CreatedTimeOption ==
    /\ []((last.op = "setinfo" /\ "modified" \in last.attrs.names /\ Resolves(last.path)
           /\ ~SyntheticRoot(last.path)) => SetinfoShowsModified)
    /\ [][\A h \in Slots, id \in 1..MaxId, option \in CreatedOptions :
            (Called("close") /\ last'.h = h /\ last'.err = "ok"
             /\ handles[h].state = "open" /\ writing(handles[h].parsedMode)
             /\ handles[h].createdDateTime = option) =>
               /\ (handles[h].thisMetadata = None /\ option # None /\ nextId = id) =>
                     /\ ~Exists(id) /\ Exists(id)'
                     /\ InfoFromMetadata(Obj(id))'.created = Second(option)
               /\ (handles[h].thisMetadata = id /\ Exists(id)) =>
                     InfoFromMetadata(Obj(id))'.created = InfoFromMetadata(Obj(id)).created]_vars

\* a close, a second or more after the time the option names, has created the object
C17_Witness ==
    /\ last.op = "close" /\ last.err = "ok"
    /\ CallsOf(calls, "create") # {}
    /\ clock >= TicksPerSecond
    /\ \E f \in files : f.id = 1 /\ nextId = 2 /\ Second(f.createdTime) = 0

\* the permission share(path, email, role) asks the backend to create
Permission(email, role) ==
    IF email # NoEmail THEN [role |-> role, type |-> "user", emailAddress |-> email]
    ELSE [role |-> role, type |-> "anyone", emailAddress |-> NoEmail]

\* share of the path P, which leads to the object id, did what the claim says
ShareShares(P, id) ==
    /\ last'.role \notin SharingRoles =>
          /\ last'.err = "OperationFailed"
          /\ CallsOf(calls', "permit") = {}
          /\ files' = files
    /\ last'.role \in SharingRoles =>
          /\ last'.err = "ok"
          /\ Cardinality(CallsOf(calls', "permit")) = 1
          /\ \A i \in CallsOf(calls', "permit") : calls'[i].id = id
          /\ last'.url = <<sharingUrl, id>>
          /\ Exists(id) =>
                /\ Obj(id)'.permissions
                     = Obj(id).permissions \cup {Permission(last'.email, last'.role)}
                /\ \A f \in files : f.id # id => f \in files'

(* C19: share on an existing path with a role of the allowed set creates
   exactly one permission on the object, of type user with the e-mail when
   one is given and of type anyone otherwise, and returns the sharing prefix
   followed by the identifier of the object; on a missing path it raises
   not-found; with a role outside the allowed set it fails and creates no
   permission. *)
C19_ShareCreatesOnePermission ==
    [][\A P \in AllPaths :
         (Called("share") /\ last'.path = P) =>
            /\ Absent(P) => last'.err = "ResourceNotFound" /\ files' = files
            /\ Resolves(P) => \A id \in At(P) : ShareShares(P, id)]_vars

\* the operations that take one path and need its target to exist
NeedTarget == {"getinfo", "setinfo", "share", "geturl", "scandir", "listdir", "remove", "removedir"}

\* what the permission list of the object at P says about sharing
SharedAt(P) ==
    IF SyntheticRoot(P) THEN FALSE
    ELSE ObjectAt(P).hasPermissions /\ Cardinality(ObjectAt(P).permissions) > 1

(* C20: hasurl never raises not-found; asked for the download purpose, the
   one purpose there is, it returns false for a path that leads to nothing,
   and for a path that leads to an object it returns true exactly when the
   permission list of the object has more than one entry, false when the
   object has no such list.  Every other operation on one path whose target is
   missing raises not-found. *)
C20_HasurlSwallowsNotFound ==
    [][\A P \in AllPaths :
         (last' # Idle /\ last'.path = P) =>
            /\ Called("hasurl") =>
                  /\ last'.err # "ResourceNotFound"
                  /\ (last'.purpose = "download" /\ Absent(P)) =>
                        last'.err = "ok" /\ last'.flag = FALSE
                  /\ (last'.purpose = "download" /\ Resolves(P)) =>
                        last'.err = "ok" /\ last'.flag = SharedAt(P)
            /\ (last'.op \in NeedTarget /\ Absent(P)
                /\ (last'.op = "geturl" => last'.purpose = "download")) =>
                  last'.err = "ResourceNotFound"]_vars

\* hasurl has answered true for a shared file, and would answer false for the path next to it
C20_Witness ==
    /\ last.op = "hasurl" /\ last.err = "ok" /\ last.flag
    /\ last.path = <<"a">>
    /\ Absent(<<"b">>)
    /\ Cardinality(ObjectAt(<<"a">>).permissions) = 2

\* the operation a logged backend call belongs to
OpOf(c) == <<c.thread, c.op>>

(* C18: every backend call made on behalf of an operation, the upload of a
   close included, is made by a thread that holds the instance lock, and the
   backend calls of two operations never interleave: between two calls of
   one operation there is no call of another. *)
C18_CallsUnderLock ==
    /\ \A i \in 1..Len(calls) : calls[i].locked
    /\ \A i, j, k \in 1..Len(calls) :
          (i < j /\ j < k /\ OpOf(calls[i]) = OpOf(calls[k])) => OpOf(calls[j]) = OpOf(calls[i])

-----------------------------------------------------------------------------
(* Downloads, and what a failing backend looks like to the caller *)

\* one file or folder at /a that is downloaded, exported, opened and closed
NextDown ==
    \/ \E path \in Paths : Makedir(path, FALSE)
    \/ \E path \in Paths, mode \in OpenModes, h \in Slots : Openbin(path, mode, h)
    \/ \E h \in Slots, data \in Chunks : Write(h, data)
    \/ \E h \in Slots, backendFails \in BOOLEAN : Close(h, backendFails)
    \/ \E path \in Paths, mimetype \in BOOLEAN, backendFails \in BOOLEAN :
          Download(path, mimetype, backendFails)
    \/ Return

SpecDown == InitTime /\ [][NextDown]_vars

(* C21: a backend error during a download, an export or the upload of a
   close reaches the caller as OperationFailed, and the download of a path
   that does not exist raises ResourceNotFound. *)
C21_BackendErrorsAreOperationFailed ==
    [][\A P \in AllPaths :
          /\ (Called("download") /\ last'.path = P /\ Absent(P)) =>
                last'.err = "ResourceNotFound"
          /\ (Called("download") /\ last'.path = P /\ Resolves(P)
              /\ last'.backendFails) =>
                last'.err = "OperationFailed"
          /\ (Called("close") /\ last'.backendFails) =>
                last'.err = "OperationFailed"]_vars

\* the part of C21 about downloads and exports alone
C21_DownloadErrors ==
    [][\A P \in AllPaths :
          /\ (Called("download") /\ last'.path = P /\ Absent(P)) =>
                last'.err = "ResourceNotFound"
          /\ (Called("download") /\ last'.path = P /\ Resolves(P)
              /\ last'.backendFails) =>
                last'.err = "OperationFailed"]_vars

-----------------------------------------------------------------------------
(* Shortcuts *)

\* files and folders that shortcuts are made to, looked at and removed
NextShortcut ==
    \/ \E path \in Paths : Makedir(path, FALSE)
    \/ \E path \in Paths : Writebytes(path, <<>>)
    \/ \E shortcut_path \in Paths, target_path \in Paths :
          AddShortcut(shortcut_path, target_path)
    \/ \E path \in Paths : Getinfo(path)
    \/ \E path \in Paths : Remove(path)
    \/ Return

SpecShortcut == Init /\ [][NextShortcut]_vars

IsShortcutAt(path) == Resolves(path) /\ path # Root /\ ObjectAt(path).mimeType = shortcutMimeType
IdAt(path) == CHOOSE id \in At(path) : TRUE

(* C22: add_shortcut raises ResourceNotFound for a target that does not
   exist, FileExpected for a target that is a folder, DestinationExists
   when there is an object at shortcut_path and ResourceNotFound when the
   parent of shortcut_path does not exist, and creates nothing in these
   cases; otherwise it creates exactly one object, a shortcut under the
   parent of shortcut_path, for which getinfo reports isShortcut; remove of
   a shortcut deletes it, and the path is gone. *)
C22_AddShortcut ==
    /\ [](\A S \in AllPaths :
            (last.op = "getinfo" /\ last.path = S /\ IsShortcutAt(S)) =>
                last.err = "ok" /\ last.info.isShortcut)
    /\ [][\A S, T \in AllPaths :
          /\ (Called("add_shortcut") /\ last'.path = S /\ last'.dst = T) =>
                /\ Absent(T) => last'.err = "ResourceNotFound"
                /\ (Resolves(T) /\ IsFolderAt(T)) => last'.err = "FileExpected"
                /\ (Resolves(T) /\ ~IsFolderAt(T) /\ Resolves(S)) =>
                      last'.err = "DestinationExists"
                /\ (Resolves(T) /\ ~IsFolderAt(T) /\ Absent(S) /\ Absent(dirname(S))) =>
                      last'.err = "ResourceNotFound"
                /\ last'.err # "ok" => files' = files /\ Mutating(calls') = {}
                /\ (Resolves(T) /\ ~IsFolderAt(T) /\ Absent(S) /\ Resolves(dirname(S))) =>
                      /\ last'.err = "ok"
                      /\ \E f \in files' :
                            /\ files' = files \cup {f} /\ f \notin files
                            /\ f.mimeType = shortcutMimeType
                            /\ f.parent = IdAt(dirname(S))
                            /\ f.name = basename(S)
                            /\ f.targetId = IdAt(T)
                      /\ Cardinality(CallsOf(calls', "create")) = 1
                      /\ IsShortcutAt(S)'
          /\ (Called("remove") /\ last'.path = S /\ IsShortcutAt(S)) =>
                /\ last'.err = "ok"
                /\ Absent(S)'
                /\ files' = files \ {ObjectAt(S)}]_vars

\* a shortcut /b to the file /a was added, and getinfo says that it is one
C22_Witness ==
    /\ last.op = "getinfo" /\ last.err = "ok" /\ last.path = <<"b">>
    /\ last.info.isShortcut
    /\ IsShortcutAt(<<"b">>)
    /\ Resolves(<<"a">>) /\ ObjectAt(<<"b">>).targetId = IdAt(<<"a">>)

-----------------------------------------------------------------------------
(* Siblings of one name *)

\* the non-trashed objects that have the given name below the given parent
Siblings(parent, name) == {f \in files : ~f.trashed /\ f.parent = parent /\ f.name = name}

(* C23: whatever the interleaving of operations and closes of handles on
   one instance, starting from a backend without two non-trashed children
   of one name below one parent, no parent ever has two non-trashed
   children of one name. *)
C23_OneChildPerName ==
    \A f \in files : ~f.trashed => Siblings(f.parent, f.name) = {f}

\* operations on a tree in which a handle's close has made a second child of one name
NextDup ==
    \/ \E path \in Paths : Makedir(path, FALSE)
    \/ \E path \in Paths, h \in Slots : Openbin(path, "w", h)
    \/ \E h \in Slots : Close(h, FALSE)
    \/ \E path \in Paths : Remove(path)
    \/ \E path \in Paths : Removedir(path)
    \/ \E src_path \in Paths, dst_path \in Paths, overwrite \in BOOLEAN :
          Copy(src_path, dst_path, overwrite)
    \/ \E src_path \in Paths, dst_path \in Paths, overwrite \in BOOLEAN :
          Move(src_path, dst_path, overwrite)
    \/ \E shortcut_path \in Paths, target_path \in Paths :
          AddShortcut(shortcut_path, target_path)
    \/ \E path \in Paths : Getinfo(path)
    \/ \E path \in Paths, mimetype \in BOOLEAN : Download(path, mimetype, FALSE)
    \/ Return

SpecDup == Init /\ [][NextDup]_vars

\* the lookup of a name below a parent, as logged, had several matches
SeveralMatches(c) ==
    c.call = "list" /\ c.name # "" /\ Cardinality(fileQueryByName(c.parent, c.name)) > 1
\* walking down the path comes to a name that several objects have
Ambiguous(path) ==
    \E q \in Prefixes(path) :
        /\ Cardinality(At(q)) > 1
        /\ \A p \in Prefixes(q) : p # q => Cardinality(At(p)) = 1
OnePathOps == {"makedir", "openbin", "remove", "removedir", "getinfo", "download"}

(* C24: when a lookup of a segment made while a path is resolved has more
   than one match, the operation that asked for the resolution fails with
   RuntimeError, carries on with none of the matches (the lookup is its
   last backend call), and makes no mutating call. *)
C24_SeveralMatchesFail ==
    [][/\ \A i \in 1..Len(calls') :
            (last' # Idle /\ SeveralMatches(calls'[i])) =>
                /\ last'.err = "RuntimeError"
                /\ i = Len(calls')
                /\ Mutating(calls') = {}
                /\ files' = files
       /\ \A P \in AllPaths :
            (last' # Idle /\ last'.op \in OnePathOps /\ last'.path = P /\ Ambiguous(P)) =>
                /\ last'.err = "RuntimeError"
                /\ \E i \in 1..Len(calls') : SeveralMatches(calls'[i])]_vars

\* /a is the name of two objects, and the removal of /a has failed on that
C24_Witness ==
    /\ last.op = "remove" /\ last.path = <<"a">> /\ last.err = "RuntimeError"
    /\ Cardinality(At(<<"a">>)) = 2

-----------------------------------------------------------------------------
(* The resolver *)

\* the lookups by name among the calls of a log, in their order
RECURSIVE Lookups(_)
Lookups(log) ==
    IF log = <<>> THEN <<>>
    ELSE IF Head(log).call = "list" THEN <<Head(log)>> \o Lookups(Tail(log))
    ELSE Lookups(Tail(log))
Prefix(path, k) == SubSeq(path, 1, k)
\* the map the resolver returned for the path is as C25 says
ResolvedRight(path, r) ==
    LET n == Len(r.items) - 1
        lookups == Lookups(r.calls) IN
    /\ n >= 0
    /\ r.items[1] = IF rootId = None THEN rootMetadata ELSE Obj(rootId)
    /\ \A k \in 0..Len(path) : k <= n <=> At(Prefix(path, k)) # {}
    /\ \A k \in 1..n :
          /\ r.items[k + 1] \in fileQueryByName(r.items[k].id, path[k])
          /\ At(Prefix(path, k)) = {r.items[k + 1].id}
    /\ Len(lookups) = IF n = Len(path) THEN n ELSE n + 1
    /\ \A i \in 1..Len(lookups) :
          lookups[i] = ListCall(r.items[i].id, path[i])
    /\ Has(r, path) <=> At(path) # {}

(* C25: the map the resolver returns for a path has the root under "/" and,
   besides, exactly the prefixes of the path up to the longest one that
   exists; each object in it is the child, by name, of the object of the
   prefix before; there is one lookup for each segment up to the first
   missing one and none after it; the path itself is in the map if and
   only if its target exists. *)
C25_ResolverMap ==
    /\ \A P \in AllPaths : itemsFromPath(P).err = "ok" => ResolvedRight(P, itemsFromPath(P))
    /\ \A P \in AllPaths :
          (last.op = "getinfo" /\ last.path = P /\ last.err \in {"ok", "ResourceNotFound"}) =>
              calls = itemsFromPath(P).calls

\* getinfo of /a/b has looked for a, has not found it, and has not looked for b
C25_Witness ==
    /\ last.op = "getinfo" /\ last.path = <<"a", "b">> /\ last.err = "ResourceNotFound"
    /\ Len(Lookups(calls)) = 1
    /\ At(<<"b">>) # {} /\ At(<<"a">>) = {}

-----------------------------------------------------------------------------
(* Paths with characters that are not allowed *)

\* the paths of the scene, and the paths that are not allowed
PathInputs == Paths \cup {Root} \cup BadPaths

\* every operation that takes a path, called with paths that are allowed and not
NextInvalid ==
    \/ \E path \in PathInputs : Makedir(path, FALSE)
    \/ \E path \in PathInputs, h \in Slots : Openbin(path, "w", h)
    \/ \E h \in Slots : Close(h, FALSE)
    \/ \E path \in PathInputs : Remove(path)
    \/ \E path \in PathInputs : Removedir(path)
    \/ \E src_path \in PathInputs, dst_path \in PathInputs :
          Copy(src_path, dst_path, FALSE)
    \/ \E src_path \in PathInputs, dst_path \in PathInputs :
          Move(src_path, dst_path, FALSE)
    \/ \E shortcut_path \in PathInputs, target_path \in PathInputs :
          AddShortcut(shortcut_path, target_path)
    \/ \E path \in PathInputs : Scandir(path)
    \/ \E path \in PathInputs : Listdir(path)
    \/ \E path \in PathInputs : Getinfo(path)
    \/ \E path \in PathInputs, info \in AttrInputs : Setinfo(path, info)
    \/ \E path \in PathInputs : Share(path, "u@x", "reader")
    \/ \E path \in PathInputs : Hasurl(path, "download")
    \/ \E path \in PathInputs : Geturl(path, "download")
    \/ \E path \in PathInputs : Download(path, FALSE, FALSE)
    \/ Return

SpecInvalid == InitTime /\ [][NextInvalid]_vars

PathOps == {"getinfo", "setinfo", "listdir", "scandir", "makedir", "openbin", "remove",
            "removedir", "copy", "move", "share", "hasurl", "geturl", "download",
            "add_shortcut"}
TwoPathOps == {"copy", "move", "add_shortcut"}

(* C26: each of getinfo, setinfo, listdir, scandir, makedir, openbin,
   remove, removedir, copy, move, share, hasurl, geturl, download and
   add_shortcut, called with a path that holds a character that is not
   allowed, fails with InvalidPath before any backend call; for copy, move
   and add_shortcut, when either of the two paths is such a path. *)
C26_InvalidPathFirst ==
    [][(/\ last' # Idle
        /\ last'.op \in PathOps
        /\ \/ last'.path \in BadPaths
           \/ last'.op \in TwoPathOps /\ last'.dst \in BadPaths) =>
            /\ last'.err = "InvalidPath"
            /\ calls' = <<>>
            /\ files' = files /\ handles' = handles]_vars

\* add_shortcut to a file that exists was refused for the shortcut's path alone
C26_Witness ==
    /\ last.op = "add_shortcut" /\ last.err = "InvalidPath"
    /\ last.path \in BadPaths /\ last.dst = <<"a">>
    /\ Resolves(<<"a">>) /\ ~IsFolderAt(<<"a">>)
    /\ calls = <<>>

-----------------------------------------------------------------------------
(* Operations that call operations *)

NestPaths == {<<"a">>}
NestOps == {"share", "hasurl", "geturl", "listdir", "openbin"}

\* two threads that share, ask for urls, list, open and close
NextNest ==
    \/ \E t \in Threads, op \in NestOps, path \in NestPaths : StartOp(t, op, path)
    \/ \E t \in Threads : Acquire(t)
    \/ \E t \in Threads : BackendStep(t)
    \/ \E t \in Threads : CallNested(t)
    \/ \E t \in Threads : Release(t)
    \/ \E t \in Threads, h \in Slots : StartClose(t, h)
    \/ \E t \in Threads : Upload(t)

\* what a thread does once it has called an operation; a thread that can go on does
Runs(t) ==
    \/ Acquire(t)
    \/ BackendStep(t)
    \/ CallNested(t)
    \/ Release(t)
    \/ Upload(t)

SpecNest == InitLock /\ [][NextNest]_vars /\ \A t \in Threads : WF_vars(Runs(t))

(* C27 as stated: no operation comes to acquire the instance lock while its
   thread holds it (so that a lock that is not reentrant would do, and every
   operation would finish and release it). *)
C27_NeverAcquiresHeldLock ==
    \A t \in Threads : threads[t].pc = "acquire" => lock.owner # t

(* C27 as amended: the lock is reentrant; share, geturl, hasurl and listdir
   acquire it again through the operation they call, the lock counts one
   acquisition for each with block the thread is in, and every operation
   that is called finishes and leaves the lock released by its thread. *)
C27_ReentrantLockIsReleased ==
    /\ [](\A t \in Threads :
            /\ threads[t].pc = "locked" =>
                  lock.owner = t /\ lock.count = Len(threads[t].stack) + 1
            /\ (threads[t].pc = "acquire" /\ threads[t].stack # <<>>) =>
                  lock.owner = t /\ lock.count = Len(threads[t].stack)
            /\ threads[t].pc \in {"idle", "closing"} => lock.owner # t)
    /\ \A t \in Threads :
          (threads[t].pc # "idle") ~> (threads[t].pc = "idle" /\ lock.owner # t)

\* share has called geturl, which has called getinfo: the thread is in three with blocks
C27_Witness ==
    \E t \in Threads :
        /\ threads[t].pc = "locked" /\ threads[t].op = "getinfo"
        /\ threads[t].stack = <<"share", "geturl">>
        /\ lock = [owner |-> t, count |-> 3]

-----------------------------------------------------------------------------
(* Parents *)

(* C28: every object the adapter has created or moved has a folder as its
   parent; nothing is created or moved below an object that is a file. *)
C28_ParentsAreFolders ==
    \A f \in files :
        f.id # AltRootId =>
            \/ f.parent = RootMarker
            \/ \E g \in files : g.id = f.parent /\ g.mimeType = folderMimeType

-----------------------------------------------------------------------------
(* Folders as destinations *)

(* C29: copy and move delete no folder: when dst resolves to a folder,
   copy(src, dst, overwrite = True) and move(src, dst, overwrite = True)
   leave the folder and everything below it in place. *)
C29_FoldersSurviveOverwrite ==
    [][\A D \in AllPaths :
          ((Called("copy") \/ Called("move")) /\ last'.dst = D /\ last'.overwrite
           /\ Resolves(D) /\ IsFolderAt(D)) =>
              \A f \in files :
                  f.id \in Descendants(At(D)) =>
                      \E g \in files' : g.id = f.id /\ g.mimeType = f.mimeType]_vars

-----------------------------------------------------------------------------
(* Writers that do not know of each other *)

\* one file that a handle, a second writer of the instance and an outside writer write
NextRace ==
    \/ \E path \in Paths, mode \in OpenModes, h \in Slots : Openbin(path, mode, h)
    \/ \E h \in Slots, data \in Chunks : Write(h, data)
    \/ \E h \in Slots : Close(h, FALSE)
    \/ \E path \in Paths, data \in Chunks : Writebytes(path, data)
    \/ \E id \in 1..MaxId, data \in Chunks : ExternalWrite(id, data)
    \/ Return

SpecRace == InitIO /\ [][NextRace]_vars

(* C30: the close of a handle opened for writing on an object that exists
   makes the handle's local buffer the content of the object and raises no
   error, whatever has been written to the object since the handle was
   opened, by a second handle of the instance or from outside; what was
   written in between is lost. *)
C30_CloseOverwrites ==
    [][\A h \in Slots, id \in 1..MaxId :
          (Called("close") /\ last'.h = h
           /\ handles[h].state = "open" /\ handles[h].localPath
           /\ writing(handles[h].parsedMode)
           /\ handles[h].thisMetadata = id /\ Exists(id)) =>
              /\ last'.err = "ok"
              /\ \E g \in files' : g.id = id /\ g.content = handles[h].buf
              /\ Cardinality(CallsOf(calls', "update")) = 1
              /\ Len(calls') = 1]_vars

\* a handle was closed on a file that had been written in between, and its buffer won
C30_Witness ==
    /\ last.op = "close" /\ last.err = "ok" /\ last.stale
    /\ Resolves(<<"a">>) /\ ObjectAt(<<"a">>).content # <<>>

-----------------------------------------------------------------------------
(* The info of the root *)

\* the part of C31 that is about an instance without a rootId
C31_SyntheticRootInfo ==
    (last.op = "getinfo" /\ last.path = Root /\ rootId = None) =>
        /\ last.err = "ok"
        /\ last.info.is_dir
        /\ last.info.name = ""
        /\ last.info.created = None /\ last.info.modified = None
        /\ last.info.size = None
        /\ last.info.id = RootMarker

(* C31: getinfo("/") always succeeds and reports a directory with an empty
   name, no created and no modified time, no size, and as its identifier
   the root marker when no rootId is configured, and the rootId when one
   is. *)
C31_RootInfo ==
    (last.op = "getinfo" /\ last.path = Root) =>
        /\ last.err = "ok"
        /\ last.info.is_dir
        /\ last.info.name = ""
        /\ last.info.created = None /\ last.info.modified = None
        /\ last.info.size = None
        /\ last.info.id = IF rootId = None THEN RootMarker ELSE rootId

====
